---- MODULE Spec2Model ----
(***************************************************************************)
(* bicicletapp: the request pipeline (authentication gate, role gate),     *)
(* the ticket handlers and the SQLite repositories they call.              *)
(*                                                                         *)
(* A request is served by its own goroutine.  The middleware chain and the *)
(* handler code between two SQL statements touch only request-local data,  *)
(* so one step of the model is one SQL statement together with the local   *)
(* code that follows it, up to the next statement or the response.  The    *)
(* single database connection executes the statements one at a time, in    *)
(* any order the scheduler produces.                                       *)
(***************************************************************************)
EXTENDS Integers, Sequences, FiniteSets, TLC

VARIABLES
    now,        \* wall clock, in units of one hour
    users,      \* table users: id -> row
    bookings,   \* table bookings: id -> row (ids 1..Len)
    tickets,    \* table tickets: id -> row (ids 1..Len)
    history,    \* table ticket_status_history, in insertion order
    issued,     \* log of the tokens handed out by handleLogin
    inflight,   \* the requests being served: slot -> request state
    served,     \* number of requests accepted so far
    last,       \* the request that took the last step, with its response
    ads,        \* table ads: id -> row (ids 1..Len)
    tasks,      \* the goroutines started by handlers and not yet run
    srv,        \* Server.Run: the listener, the signal, the shutdown
    ticket_parts, \* table ticket_parts: id -> row (ids 1..Len)
    surveys     \* table surveys, in insertion order

vars == <<now, users, bookings, tickets, history, issued, inflight, served, last,
          ads, tasks, srv, ticket_parts, surveys>>

----------------------------------------------------------------------------
(* Bounds of the model *)

MaxTime == 3
MaxRequests == 2
MaxTokens == 2
ExpirationHours == 2

Slots == {1, 2}

----------------------------------------------------------------------------
(* internal/domain: status and role constants *)

BookingStatusPending == "pending"
BookingStatusConfirmed == "confirmed"
BookingStatusCancelled == "cancelled"

TicketStatusReceived == "received"
TicketStatusDiagnosing == "diagnosing"
TicketStatusInProgress == "in_progress"
TicketStatusWaitingParts == "waiting_parts"
TicketStatusReady == "ready"
TicketStatusDelivered == "delivered"

RoleCustomer == "customer"
RoleTechnician == "technician"
RoleAdmin == "admin"

TicketStatuses ==
    {TicketStatusReceived, TicketStatusDiagnosing, TicketStatusInProgress,
     TicketStatusWaitingParts, TicketStatusReady, TicketStatusDelivered}

\* database/sql: a nullable INTEGER column
NullInt64(n) == [Valid |-> TRUE, Int64 |-> n]
NULL == [Valid |-> FALSE, Int64 |-> 0]
Nil == [nil |-> TRUE]

----------------------------------------------------------------------------
(* HTTP responses *)

NoResp == [code |-> 0, location |-> <<>>, query |-> "", body |-> "", clearCookie |-> FALSE, setCookie |-> Nil]

Redirect(loc, q) ==
    [code |-> 303, location |-> loc, query |-> q, body |-> "", clearCookie |-> FALSE, setCookie |-> Nil]

HttpError(c, msg) ==
    [code |-> c, location |-> <<>>, query |-> "", body |-> msg, clearCookie |-> FALSE, setCookie |-> Nil]

NotFound == HttpError(404, "404 page not found")

Page(name, flash) ==
    [code |-> 200, location |-> <<name>>, query |-> "", body |-> flash, clearCookie |-> FALSE, setCookie |-> Nil]

TicketPath(id) == <<"/tickets", id>>

----------------------------------------------------------------------------
(* Credentials: golang.org/x/crypto/bcrypt as used by the handlers *)

\* The bytes of the password that reach the hash: the key schedule of
\* bcrypt reads 72 bytes of key and no more
Key(password) == IF Len(password) > 72 THEN SubSeq(password, 1, 72) ELSE password

\* bcrypt.GenerateFromPassword.  A hash string is its prefix and the digest;
\* the digest is taken to be free of collisions, so it stands for the key
\* it was made from (the salt is part of the string and is used again by
\* the comparison, so it has no part in the comparison's result).  The
\* releases of the library from v0.5.0 on refuse a password of more than 72
\* bytes with ErrPasswordTooLong, the earlier ones hash it: strict tells
\* which release the build has.
GenerateFromPassword(password, strict) ==
    IF strict /\ Len(password) > 72
    THEN [hash |-> <<>>, err |-> "ErrPasswordTooLong"]
    ELSE [hash |-> <<"$2a$", Key(password)>>, err |-> ""]

\* bcrypt.CompareHashAndPassword: the error, "" for nil.  It hashes the
\* password with the parameters of the hash, in every release without a
\* test of the password's length.
CompareHashAndPassword(hash, password) ==
    CASE Len(hash) < 2 -> "ErrHashTooShort"
      [] hash[1] # "$2a$" -> "InvalidHashPrefixError"
      [] hash[2] # Key(password) -> "ErrMismatchedHashAndPassword"
      [] OTHER -> ""

\* repository/sqlite: HashPassword returns (string, error), CheckPassword a
\* bool
HashPassword(password, strict) == GenerateFromPassword(password, strict)

CheckPassword(password, hash) == CompareHashAndPassword(hash, password) = ""

\* server: hashPassword and checkPasswordHash, the same two functions
\* again.  The handlers' passwords are shorter than 72 bytes, where every
\* release returns the hash and no error.
hashPassword(password) == GenerateFromPassword(password, FALSE).hash

checkPasswordHash(password, hash) == CompareHashAndPassword(hash, password) = ""

\* A call of HashPassword on the password drawn
HashPassword_call ==
    /\ last.step = "input"
    /\ last' = [last EXCEPT !.step = "HashPassword",
                            !.resp = HashPassword(last.req.password, last.req.strict)
                                        @@ [of |-> last.req.password, ishash |-> TRUE]]

\* A call of CheckPassword on the hash just made, with the password it
\* was made from or with the other one
CheckPassword_call(which) ==
    /\ last.step = "HashPassword"
    /\ last.resp.err = ""
    /\ LET tried == IF which = "same" THEN last.req.password ELSE last.req.other
       IN  last' = [last EXCEPT !.step = "CheckPassword",
                                !.resp = [hash |-> last.resp.hash,
                                          of |-> last.req.password, ishash |-> TRUE,
                                          tried |-> tried,
                                          ok |-> CheckPassword(tried, last.resp.hash)]]

\* A call of CheckPassword on a string that is no hash
CheckPassword_malformed ==
    /\ last.step = "input"
    /\ last' = [last EXCEPT !.step = "CheckPassword",
                            !.resp = [hash |-> last.req.malformed,
                                      of |-> "", ishash |-> FALSE,
                                      tried |-> last.req.password,
                                      ok |-> CheckPassword(last.req.password,
                                                           last.req.malformed)]]

----------------------------------------------------------------------------
(* Tokens: github.com/golang-jwt/jwt/v5 as used by the middleware *)

Secret == "server-secret"
ForgedKey == "attacker-key"

NoClaims == [UserID |-> 0, Email |-> "", Role |-> "", ExpiresAt |-> 0, IssuedAt |-> 0]

\* generateToken: the claims are copied from the user row read at login,
\* the expiry is the time of issue plus the configured number of hours.
generateToken(user, t) ==
    [claims |-> [UserID |-> user.id, Email |-> user.email, Role |-> user.role,
                 ExpiresAt |-> t + ExpirationHours, IssuedAt |-> t],
     key |-> Secret]

\* A string that is no token at all (an empty or mangled cookie value).
Garbage == [claims |-> NoClaims, key |-> ""]

\* A variant that does not look at the expiry; the token property C8 must
\* tell it apart.
ParseWithClaims_noExpiry(tokenString, key, t) ==
    IF tokenString.key # key
    THEN [valid |-> FALSE, claims |-> NoClaims]
    ELSE [valid |-> TRUE, claims |-> tokenString.claims]

\* jwt.ParseWithClaims with the server's key: the signature must be the one
\* made with that key and the token is expired unless t is before ExpiresAt.
ParseWithClaims(tokenString, key, t) ==
    IF tokenString.key # key
    THEN [valid |-> FALSE, claims |-> NoClaims]
    ELSE IF ~(t < tokenString.claims.ExpiresAt)
    THEN [valid |-> FALSE, claims |-> tokenString.claims]
    ELSE [valid |-> TRUE, claims |-> tokenString.claims]

----------------------------------------------------------------------------
(* Middleware (authMiddleware, roleMiddleware) and the route table *)

NoCookie == [absent |-> TRUE]
NoCred == [cookie |-> NoCookie, header |-> <<>>]

\* strings.SplitN(authHeader, " ", 2) on a header given as its words
SplitN2(header) ==
    IF Len(header) <= 2 THEN header ELSE <<header[1], Garbage>>

ClearCookie(resp) == [resp EXCEPT !.clearCookie = TRUE]

\* A variant that leaves a rejected cookie in place; the failure property
\* C13 must tell it apart.
authMiddleware_keepCookie(cred, t) ==
    LET parts == SplitN2(cred.header)
        missing == cred.cookie = NoCookie /\ cred.header = <<>>
        malformed == cred.cookie = NoCookie /\ cred.header # <<>>
                     /\ (Len(parts) # 2 \/ parts[1] # "Bearer")
        tokenString == IF cred.cookie # NoCookie THEN cred.cookie ELSE parts[2]
    IN  IF missing \/ malformed
        THEN [next |-> FALSE, claims |-> Nil, resp |-> Redirect(<<"/login">>, "")]
        ELSE LET token == ParseWithClaims(tokenString, Secret, t)
             IN  IF ~token.valid
                 THEN [next |-> FALSE, claims |-> Nil, resp |-> Redirect(<<"/login">>, "")]
                 ELSE [next |-> TRUE, claims |-> token.claims, resp |-> NoResp]

\* A variant that reads the role of the user's row at request time and
\* turns away a user whose row is gone; the session property C11 must tell
\* it apart.
authMiddleware_currentRole(cred, t) ==
    LET tokenString == IF cred.cookie # NoCookie THEN cred.cookie ELSE Garbage
        token == ParseWithClaims(tokenString, Secret, t)
        id == token.claims.UserID
    IN  IF ~token.valid \/ id \notin DOMAIN users \/ users[id].role = ""
        THEN [next |-> FALSE, claims |-> Nil,
              resp |-> ClearCookie(Redirect(<<"/login">>, ""))]
        ELSE [next |-> TRUE, claims |-> [token.claims EXCEPT !.Role = users[id].role],
              resp |-> NoResp]

\* authMiddleware: the cookie first, the Authorization header as a fallback;
\* the result says whether next is called and with which claims.
authMiddleware(cred, t) ==
    LET parts == SplitN2(cred.header)
        missing == cred.cookie = NoCookie /\ cred.header = <<>>
        malformed == cred.cookie = NoCookie /\ cred.header # <<>>
                     /\ (Len(parts) # 2 \/ parts[1] # "Bearer")
        tokenString == IF cred.cookie # NoCookie THEN cred.cookie ELSE parts[2]
    IN  IF missing \/ malformed
        THEN [next |-> FALSE, claims |-> Nil, resp |-> Redirect(<<"/login">>, "")]
        ELSE LET token == ParseWithClaims(tokenString, Secret, t)
             IN  IF ~token.valid
                 THEN [next |-> FALSE, claims |-> Nil,
                       resp |-> ClearCookie(Redirect(<<"/login">>, ""))]
                 ELSE [next |-> TRUE, claims |-> token.claims, resp |-> NoResp]

\* A variant that lets every authenticated role through; the role gate
\* property C6 must tell it apart.
roleMiddleware_open(allowedRoles, claims) ==
    IF claims = Nil
    THEN [next |-> FALSE, claims |-> claims, resp |-> HttpError(401, "Unauthorized")]
    ELSE [next |-> TRUE, claims |-> claims, resp |-> NoResp]

\* roleMiddleware(allowedRoles...): claims is what the context carries
roleMiddleware(allowedRoles, claims) ==
    IF claims = Nil
    THEN [next |-> FALSE, claims |-> claims, resp |-> HttpError(401, "Unauthorized")]
    ELSE IF claims.Role \in allowedRoles \/ claims.Role = RoleAdmin
    THEN [next |-> TRUE, claims |-> claims, resp |-> NoResp]
    ELSE [next |-> FALSE, claims |-> claims, resp |-> HttpError(403, "Forbidden")]

AuthMW == [mw |-> "auth", allowed |-> {}]
RoleMW(allowedRoles) == [mw |-> "role", allowed |-> allowedRoles]

\* setupRoutes: the group each handler is registered in
RouteGroup(handler) ==
    CASE handler \in {"handleLogin", "handleRegister", "handleTrackingStatus",
                      "handleAdClick", "handlePublicSubmitSurvey"} -> "public"
      [] handler \in {"handleDashboard", "handleCancelBooking",
                      "handleUpdateProfile", "handleSurveyPage",
                      "handleSubmitSurvey"} -> "customer"
      [] handler \in {"handleWorkshopDashboard", "handleUpdateTicketStatus",
                      "handleAddTicketNotes", "handleCreateTicket",
                      "handleCreateTicketDirect", "handleCreateTicketPart",
                      "handleToggleTicketPart", "handleDeleteTicketPart",
                      "handleTicketLabel", "handleTicketQuote",
                      "handleCreateBicycleFromBooking"} -> "technician"
      [] handler \in {"handleAdminDashboard", "handleAdminUpdateTicketTechnician",
                      "handleUpdateUser", "handleDeleteUser"} -> "admin"

\* A variant with the role gate registered before the authentication; the
\* ordering property C7 must tell it apart.
Middlewares_roleFirst(group) ==
    CASE group = "public" -> <<>>
      [] group = "customer" -> <<AuthMW>>
      [] group = "technician" -> <<RoleMW({RoleTechnician, RoleAdmin}), AuthMW>>
      [] group = "admin" -> <<RoleMW({RoleAdmin}), AuthMW>>

\* setupRoutes: the r.Use calls of each group, in order
Middlewares(group) ==
    CASE group = "public" -> <<>>
      [] group = "customer" -> <<AuthMW>>
      [] group = "technician" -> <<AuthMW, RoleMW({RoleTechnician, RoleAdmin})>>
      [] group = "admin" -> <<AuthMW, RoleMW({RoleAdmin})>>

\* chi runs the middlewares of a group in the order of their registration;
\* each one either answers or calls the next, the handler comes last.
RECURSIVE ServeChain(_, _, _, _, _)
ServeChain(chain, cred, t, claims, stages) ==
    IF chain = <<>>
    THEN [handler |-> TRUE, claims |-> claims, resp |-> NoResp,
          stages |-> Append(stages, "handler")]
    ELSE LET m == Head(chain)
             r == IF m.mw = "auth" THEN authMiddleware(cred, t)
                  ELSE roleMiddleware(m.allowed, claims)
         IN  IF r.next
             THEN ServeChain(Tail(chain), cred, t, r.claims, Append(stages, m.mw))
             ELSE [handler |-> FALSE, claims |-> r.claims, resp |-> r.resp,
                   stages |-> Append(stages, m.mw)]

ServeHTTP(handler, cred, t) ==
    ServeChain(Middlewares(RouteGroup(handler)), cred, t, Nil, <<>>)

\* getUserClaims
getUserClaims(claims) == IF claims = Nil THEN NoClaims ELSE claims

----------------------------------------------------------------------------
(* Requests *)

NoTicket == [ID |-> 0, BookingID |-> 0, TechnicianID |-> 0, Status |-> "", Notes |-> ""]

NoReq == [handler |-> "", id |-> 0, status |-> "", notes |-> "", technician_id |-> 0,
          email |-> "", password |-> "", role |-> ""]

Request(handler, id, status, notes, techID) ==
    [NoReq EXCEPT !.handler = handler, !.id = id, !.status = status, !.notes = notes,
                  !.technician_id = techID]

Idle == [pc |-> "idle", req |-> NoReq, claims |-> NoClaims, ticket |-> NoTicket]

NoLast == [slot |-> 0, step |-> "", req |-> NoReq, cred |-> NoCred, at |-> 0,
           stages |-> <<>>, claims |-> NoClaims, ticket |-> NoTicket, ok |-> TRUE,
           resp |-> NoResp]

\* The request that just arrived, as the last step
Arrived(i, req, cred, gate, ticket, resp) ==
    [slot |-> i, step |-> req.handler, req |-> req, cred |-> cred, at |-> now,
     stages |-> gate.stages, claims |-> getUserClaims(gate.claims),
     ticket |-> ticket, ok |-> TRUE, resp |-> resp]

\* A later step of the request in slot i: the statement step, which the
\* store executed (ok) or failed
Stepped(i, step, ticket, ok, resp) ==
    [slot |-> i, step |-> step, req |-> inflight[i].req, cred |-> NoCred, at |-> now,
     stages |-> <<>>, claims |-> inflight[i].claims, ticket |-> ticket, ok |-> ok,
     resp |-> resp]

\* The handler answers: the goroutine ends
Respond(i) == inflight' = [inflight EXCEPT ![i] = Idle]

\* The handler goes on to its next statement
Continue(i, pc, req, claims, ticket) ==
    inflight' = [inflight EXCEPT ![i] = [pc |-> pc, req |-> req, claims |-> claims,
                                         ticket |-> ticket]]

\* A new request is served in the first free slot
CanAccept(i) ==
    /\ inflight[i].pc = "idle"
    /\ \A j \in Slots : j < i => inflight[j].pc # "idle"
    /\ served < MaxRequests

----------------------------------------------------------------------------
(* internal/repository/sqlite *)

\* TicketRepo.GetByID: the row as a domain.Ticket, nil when there is no
\* such row or the query fails
TicketRepo_GetByID(id, ok) ==
    IF ok /\ id \in 1..Len(tickets)
    THEN [ID |-> id, BookingID |-> tickets[id].booking_id,
          TechnicianID |-> tickets[id].technician_id,
          Status |-> tickets[id].status, Notes |-> tickets[id].notes]
    ELSE Nil

\* BookingRepo.GetByID
BookingRepo_GetByID(id, ok) ==
    IF ok /\ id \in 1..Len(bookings)
    THEN [ID |-> id, CustomerID |-> bookings[id].customer_id, Status |-> bookings[id].status]
    ELSE Nil

\* UPDATE ... WHERE id = ? changes the row with that id, if there is one
UpdateRow(table, id, row) ==
    IF id \in 1..Len(table) THEN [table EXCEPT ![id] = row] ELSE table

\* TicketRepo.Update: technician_id, status and notes, all from the struct
TicketRepo_Update(ticket) ==
    IF ticket.ID \in 1..Len(tickets)
    THEN UpdateRow(tickets, ticket.ID,
                   [tickets[ticket.ID] EXCEPT !.technician_id = ticket.TechnicianID,
                                              !.status = ticket.Status,
                                              !.notes = ticket.Notes])
    ELSE tickets

\* TicketRepo.UpdateStatus, first statement: the status column alone
TicketRepo_UpdateStatus(id, status) ==
    IF id \in 1..Len(tickets)
    THEN UpdateRow(tickets, id, [tickets[id] EXCEPT !.status = status])
    ELSE tickets

\* BookingRepo.UpdateStatus
BookingRepo_UpdateStatus(id, status) ==
    IF id \in 1..Len(bookings)
    THEN UpdateRow(bookings, id, [bookings[id] EXCEPT !.status = status])
    ELSE bookings

\* A variant that stores no author; the history property C4 must tell it
\* apart.
TicketRepo_CreateStatusHistory_anonymous(ticketID, status, changedBy, notes) ==
    Append(history, [ticket_id |-> ticketID, status |-> status, changed_by |-> NULL,
                     notes |-> notes])

\* TicketRepo.CreateStatusHistory: changed_by 0 is stored as NULL
TicketRepo_CreateStatusHistory(ticketID, status, changedBy, notes) ==
    Append(history, [ticket_id |-> ticketID, status |-> status,
                     changed_by |-> IF changedBy # 0 THEN NullInt64(changedBy) ELSE NULL,
                     notes |-> notes])

\* UserRepo.GetByEmail
UserRepo_GetByEmail(email) ==
    IF \E u \in DOMAIN users : users[u].email = email
    THEN LET u == CHOOSE u \in DOMAIN users : users[u].email = email
         IN  [id |-> u, email |-> users[u].email, role |-> users[u].role,
              password_hash |-> users[u].password_hash]
    ELSE Nil

----------------------------------------------------------------------------
(* handleUpdateTicketStatus *)

\* A variant of the switch that lets a ticket skip the diagnosis; the
\* transition property C1 must tell it from the handler's switch.
TechnicianMayMove_skipDiagnosis(current, status) ==
    LET valid ==
          CASE current = TicketStatusReceived ->
                 status \in {TicketStatusDiagnosing, TicketStatusInProgress}
            [] current = TicketStatusDiagnosing ->
                 status \in {TicketStatusInProgress, TicketStatusWaitingParts, TicketStatusReady}
            [] current = TicketStatusInProgress ->
                 status \in {TicketStatusWaitingParts, TicketStatusReady}
            [] current = TicketStatusWaitingParts ->
                 status \in {TicketStatusInProgress, TicketStatusReady}
            [] current = TicketStatusReady -> status = TicketStatusDelivered
            [] current = TicketStatusDelivered -> FALSE
            [] OTHER -> FALSE
    IN  valid \/ current = status

\* The switch on ticket.Status followed by the same-status rule
TechnicianMayMove(current, status) ==
    LET valid ==
          CASE current = TicketStatusReceived -> status = TicketStatusDiagnosing
            [] current = TicketStatusDiagnosing ->
                 status \in {TicketStatusInProgress, TicketStatusWaitingParts, TicketStatusReady}
            [] current = TicketStatusInProgress ->
                 status \in {TicketStatusWaitingParts, TicketStatusReady}
            [] current = TicketStatusWaitingParts ->
                 status \in {TicketStatusInProgress, TicketStatusReady}
            [] current = TicketStatusReady -> status = TicketStatusDelivered
            [] current = TicketStatusDelivered -> FALSE
            [] OTHER -> FALSE
    IN  valid \/ current = status

\* A variant of the check that holds every role to the technician's
\* transitions; the administrator's override C2 must tell it apart.
UpdateTicketStatusCheck_everyRole(claims, ticket, id, status) ==
    IF ticket = Nil THEN NotFound
    ELSE IF claims.Role = RoleTechnician /\ ticket.TechnicianID # claims.UserID
    THEN HttpError(403, "Forbidden: You are not assigned to this ticket")
    ELSE IF ~TechnicianMayMove(ticket.Status, status)
    THEN Redirect(TicketPath(id), "error=invalid_transition")
    ELSE NoResp

\* What the handler answers after reading the ticket, NoResp when it goes on
\* to TicketRepo.UpdateStatus
UpdateTicketStatusCheck(claims, ticket, id, status) ==
    IF ticket = Nil THEN NotFound
    ELSE IF claims.Role = RoleTechnician /\ ticket.TechnicianID # claims.UserID
    THEN HttpError(403, "Forbidden: You are not assigned to this ticket")
    ELSE IF claims.Role = RoleTechnician /\ ~TechnicianMayMove(ticket.Status, status)
    THEN Redirect(TicketPath(id), "error=invalid_transition")
    ELSE NoResp

\* The request arrives, passes the gates, the handler reads the ticket and
\* checks the technician's permissions
handleUpdateTicketStatus(i, cred, id, status, notes, ok) ==
    LET req == Request("handleUpdateTicketStatus", id, status, notes, 0)
        gate == ServeHTTP(req.handler, cred, now)
        claims == getUserClaims(gate.claims)
        ticket == TicketRepo_GetByID(id, ok)
        resp == IF gate.handler THEN UpdateTicketStatusCheck(claims, ticket, id, status)
                ELSE gate.resp
        local == IF gate.handler /\ ticket # Nil THEN ticket ELSE NoTicket
    IN  /\ CanAccept(i)
        /\ served' = served + 1
        /\ IF resp = NoResp
           THEN Continue(i, "UpdateStatus", req, claims, local)
           ELSE Respond(i)
        /\ last' = Arrived(i, req, cred, gate, local, resp)
        /\ UNCHANGED <<ticket_parts, surveys, ads, tasks, srv, now, users, bookings, tickets, history, issued>>

\* A variant that goes on to the history record after a failed UPDATE; the
\* failure property C21 must tell it apart.
UpdateStatus_exec_goesOn(i, ok) ==
    LET r == inflight[i]
    IN  /\ r.pc = "UpdateStatus"
        /\ tickets' = IF ok THEN TicketRepo_UpdateStatus(r.req.id, r.req.status)
                      ELSE tickets
        /\ Continue(i, "UpdateStatus_history", r.req, r.claims, r.ticket)
        /\ last' = Stepped(i, "UpdateStatus_exec", r.ticket, ok, NoResp)
        /\ UNCHANGED <<ticket_parts, surveys, ads, tasks, srv, now, users, bookings, history, issued, served>>

\* TicketRepo.UpdateStatus, UPDATE tickets SET status: a failure is returned
\* to the handler, which answers update_failed
UpdateStatus_exec(i, ok) ==
    LET r == inflight[i]
    IN  /\ r.pc = "UpdateStatus"
        /\ IF ok
           THEN /\ tickets' = TicketRepo_UpdateStatus(r.req.id, r.req.status)
                /\ Continue(i, "UpdateStatus_history", r.req, r.claims, r.ticket)
                /\ last' = Stepped(i, "UpdateStatus_exec", r.ticket, ok, NoResp)
           ELSE /\ tickets' = tickets
                /\ Respond(i)
                /\ last' = Stepped(i, "UpdateStatus_exec", r.ticket, ok,
                                   Redirect(TicketPath(r.req.id), "error=update_failed"))
        /\ UNCHANGED <<ticket_parts, surveys, ads, tasks, srv, now, users, bookings, history, issued, served>>

\* A variant that reports the failed INSERT to the caller; the partial
\* failure property C20 must tell it apart.
UpdateStatus_history_surfaced(i, ok) ==
    LET r == inflight[i]
    IN  /\ r.pc = "UpdateStatus_history"
        /\ history' = IF ok
                      THEN TicketRepo_CreateStatusHistory(r.req.id, r.req.status,
                                                          r.claims.UserID, r.req.notes)
                      ELSE history
        /\ Respond(i)
        /\ last' = Stepped(i, "UpdateStatus_history", r.ticket, ok,
                           IF ok THEN Redirect(TicketPath(r.req.id), "")
                           ELSE Redirect(TicketPath(r.req.id), "error=update_failed"))
        /\ UNCHANGED <<ticket_parts, surveys, ads, tasks, srv, now, users, bookings, tickets, issued, served>>

\* TicketRepo.UpdateStatus, the history record: a failure is logged and
\* UpdateStatus returns nil all the same, so the handler redirects to the ticket
UpdateStatus_history(i, ok) ==
    LET r == inflight[i]
    IN  /\ r.pc = "UpdateStatus_history"
        /\ history' = IF ok
                      THEN TicketRepo_CreateStatusHistory(r.req.id, r.req.status,
                                                          r.claims.UserID, r.req.notes)
                      ELSE history
        /\ Respond(i)
        /\ last' = Stepped(i, "UpdateStatus_history", r.ticket, ok,
                           Redirect(TicketPath(r.req.id), ""))
        /\ UNCHANGED <<ticket_parts, surveys, ads, tasks, srv, now, users, bookings, tickets, issued, served>>

----------------------------------------------------------------------------
(* handleAddTicketNotes *)

\* A variant without the assignment check; the ownership property C3 must
\* tell it apart.
AddTicketNotesCheck_anyTechnician(claims, ticket) ==
    IF ticket = Nil THEN NotFound ELSE NoResp

\* What the handler answers after reading the ticket, NoResp when it goes on
\* to TicketRepo.Update
AddTicketNotesCheck(claims, ticket) ==
    IF ticket = Nil THEN NotFound
    ELSE IF claims.Role = RoleTechnician /\ ticket.TechnicianID # claims.UserID
    THEN HttpError(403, "Forbidden: You are not assigned to this ticket")
    ELSE NoResp

\* The handler reads the ticket, checks the assignment and sets ticket.Notes
\* on the struct it read
handleAddTicketNotes(i, cred, id, notes, ok) ==
    LET req == Request("handleAddTicketNotes", id, "", notes, 0)
        gate == ServeHTTP(req.handler, cred, now)
        claims == getUserClaims(gate.claims)
        ticket == TicketRepo_GetByID(id, ok)
        resp == IF gate.handler THEN AddTicketNotesCheck(claims, ticket) ELSE gate.resp
        local == IF gate.handler /\ ticket # Nil THEN ticket ELSE NoTicket
    IN  /\ CanAccept(i)
        /\ served' = served + 1
        /\ IF resp = NoResp
           THEN Continue(i, "AddTicketNotes_update", req, claims,
                         [local EXCEPT !.Notes = notes])
           ELSE Respond(i)
        /\ last' = Arrived(i, req, cred, gate, local, resp)
        /\ UNCHANGED <<ticket_parts, surveys, ads, tasks, srv, now, users, bookings, tickets, history, issued>>

\* TicketRepo.Update with the struct read earlier
AddTicketNotes_update(i, ok) ==
    LET r == inflight[i]
    IN  /\ r.pc = "AddTicketNotes_update"
        /\ tickets' = IF ok THEN TicketRepo_Update(r.ticket) ELSE tickets
        /\ Respond(i)
        /\ last' = Stepped(i, "AddTicketNotes_update", r.ticket, ok,
                           IF ok THEN Redirect(TicketPath(r.req.id), "")
                           ELSE HttpError(500, "Error updating ticket"))
        /\ UNCHANGED <<ticket_parts, surveys, ads, tasks, srv, now, users, bookings, history, issued, served>>

----------------------------------------------------------------------------
(* handleAdminUpdateTicketTechnician *)

handleAdminUpdateTicketTechnician(i, cred, id, techID, ok) ==
    LET req == Request("handleAdminUpdateTicketTechnician", id, "", "", techID)
        gate == ServeHTTP(req.handler, cred, now)
        claims == getUserClaims(gate.claims)
        ticket == TicketRepo_GetByID(id, ok)
        resp == IF ~gate.handler THEN gate.resp
                ELSE IF ticket = Nil THEN NotFound ELSE NoResp
        local == IF gate.handler /\ ticket # Nil THEN ticket ELSE NoTicket
    IN  /\ CanAccept(i)
        /\ served' = served + 1
        /\ IF resp = NoResp
           THEN Continue(i, "UpdateTicketTechnician_update", req, claims,
                         [local EXCEPT !.TechnicianID = techID])
           ELSE Respond(i)
        /\ last' = Arrived(i, req, cred, gate, local, resp)
        /\ UNCHANGED <<ticket_parts, surveys, ads, tasks, srv, now, users, bookings, tickets, history, issued>>

\* TicketRepo.Update with the struct read earlier
UpdateTicketTechnician_update(i, ok) ==
    LET r == inflight[i]
    IN  /\ r.pc = "UpdateTicketTechnician_update"
        /\ IF ok
           THEN /\ tickets' = TicketRepo_Update(r.ticket)
                /\ Continue(i, "UpdateTicketTechnician_history", r.req, r.claims, r.ticket)
                /\ last' = Stepped(i, "UpdateTicketTechnician_update", r.ticket, ok, NoResp)
           ELSE /\ tickets' = tickets
                /\ Respond(i)
                /\ last' = Stepped(i, "UpdateTicketTechnician_update", r.ticket, ok,
                                   HttpError(500, "Error updating ticket"))
        /\ UNCHANGED <<ticket_parts, surveys, ads, tasks, srv, now, users, bookings, history, issued, served>>

\* The history record of the reassignment, with the status of the struct;
\* the result of CreateStatusHistory is not looked at
UpdateTicketTechnician_history(i, ok) ==
    LET r == inflight[i]
    IN  /\ r.pc = "UpdateTicketTechnician_history"
        /\ history' = IF ok
                      THEN TicketRepo_CreateStatusHistory(r.req.id, r.ticket.Status,
                               r.claims.UserID, "Tecnico reasignado por administrador")
                      ELSE history
        /\ Respond(i)
        /\ last' = Stepped(i, "UpdateTicketTechnician_history", r.ticket, ok,
                           Redirect(<<"/admin/tickets">>, ""))
        /\ UNCHANGED <<ticket_parts, surveys, ads, tasks, srv, now, users, bookings, tickets, issued, served>>

----------------------------------------------------------------------------
(* handleCreateTicket *)

handleCreateTicket(i, cred, bookingID, ok) ==
    LET req == Request("handleCreateTicket", bookingID, "", "", 0)
        gate == ServeHTTP(req.handler, cred, now)
        claims == getUserClaims(gate.claims)
        booking == BookingRepo_GetByID(bookingID, ok)
        resp == IF ~gate.handler THEN gate.resp
                ELSE IF booking = Nil THEN NotFound ELSE NoResp
        ticket == [ID |-> 0, BookingID |-> bookingID, TechnicianID |-> claims.UserID,
                   Status |-> TicketStatusReceived, Notes |-> ""]
    IN  /\ CanAccept(i)
        /\ served' = served + 1
        /\ IF resp = NoResp
           THEN Continue(i, "Create", req, claims, ticket)
           ELSE Respond(i)
        /\ last' = Arrived(i, req, cred, gate, NoTicket, resp)
        /\ UNCHANGED <<ticket_parts, surveys, ads, tasks, srv, now, users, bookings, tickets, history, issued>>

\* TicketRepo.Create, INSERT INTO tickets: the new id goes into the struct
Create_exec(i, ok) ==
    LET r == inflight[i]
        id == Len(tickets) + 1
        ticket == [r.ticket EXCEPT !.ID = id]
    IN  /\ r.pc = "Create"
        /\ IF ok
           THEN /\ tickets' = Append(tickets,
                                [booking_id |-> ticket.BookingID,
                                 technician_id |-> ticket.TechnicianID,
                                 status |-> ticket.Status, notes |-> ticket.Notes])
                /\ Continue(i, "Create_history", r.req, r.claims, ticket)
                /\ last' = Stepped(i, "Create_exec", ticket, ok, NoResp)
           ELSE /\ tickets' = tickets
                /\ Respond(i)
                /\ last' = Stepped(i, "Create_exec", r.ticket, ok,
                                   HttpError(500, "Error creating ticket"))
        /\ UNCHANGED <<ticket_parts, surveys, ads, tasks, srv, now, users, bookings, history, issued, served>>

\* TicketRepo.Create, the initial history record: a failure is only printed
Create_history(i, ok) ==
    LET r == inflight[i]
    IN  /\ r.pc = "Create_history"
        /\ history' = IF ok
                      THEN TicketRepo_CreateStatusHistory(r.ticket.ID, r.ticket.Status,
                               r.ticket.TechnicianID, "Ticket creado")
                      ELSE history
        /\ Continue(i, "CreateTicket_booking", r.req, r.claims, r.ticket)
        /\ last' = Stepped(i, "Create_history", r.ticket, ok, NoResp)
        /\ UNCHANGED <<ticket_parts, surveys, ads, tasks, srv, now, users, bookings, tickets, issued, served>>

\* Bookings.UpdateStatus(confirmed), its result dropped, then the redirect
CreateTicket_booking(i, ok) ==
    LET r == inflight[i]
    IN  /\ r.pc = "CreateTicket_booking"
        /\ bookings' = IF ok
                       THEN BookingRepo_UpdateStatus(r.req.id, BookingStatusConfirmed)
                       ELSE bookings
        /\ Respond(i)
        /\ last' = Stepped(i, "CreateTicket_booking", r.ticket, ok,
                           Redirect(TicketPath(r.ticket.ID), ""))
        /\ UNCHANGED <<ticket_parts, surveys, ads, tasks, srv, now, users, tickets, history, issued, served>>

----------------------------------------------------------------------------
(* handleCancelBooking *)

handleCancelBooking(i, cred, id, ok) ==
    LET req == Request("handleCancelBooking", id, "", "", 0)
        gate == ServeHTTP(req.handler, cred, now)
        claims == getUserClaims(gate.claims)
        booking == BookingRepo_GetByID(id, ok)
        resp == IF ~gate.handler THEN gate.resp
                ELSE IF booking = Nil THEN NotFound
                ELSE IF claims.Role = RoleCustomer /\ booking.CustomerID # claims.UserID
                THEN HttpError(403, "Forbidden")
                ELSE NoResp
    IN  /\ CanAccept(i)
        /\ served' = served + 1
        /\ IF resp = NoResp
           THEN Continue(i, "CancelBooking_update", req, claims, NoTicket)
           ELSE Respond(i)
        /\ last' = Arrived(i, req, cred, gate, NoTicket, resp)
        /\ UNCHANGED <<ticket_parts, surveys, ads, tasks, srv, now, users, bookings, tickets, history, issued>>

CancelBooking_update(i, ok) ==
    LET r == inflight[i]
    IN  /\ r.pc = "CancelBooking_update"
        /\ bookings' = IF ok
                       THEN BookingRepo_UpdateStatus(r.req.id, BookingStatusCancelled)
                       ELSE bookings
        /\ Respond(i)
        /\ last' = Stepped(i, "CancelBooking_update", NoTicket, ok,
                           IF ok THEN Redirect(<<"/bookings">>, "")
                           ELSE HttpError(500, "Error cancelling booking"))
        /\ UNCHANGED <<ticket_parts, surveys, ads, tasks, srv, now, users, tickets, history, issued, served>>

----------------------------------------------------------------------------
(* The users table: UserRepo and the handlers that write it *)

\* A row that was deleted: AUTOINCREMENT never hands its id out again
NoUser == [email |-> <<>>, role |-> "", password_hash |-> <<>>]

\* UserRepo.GetByID: the row as a domain.User, nil when there is no such row
\* or the query fails
UserRepo_GetByID(id, ok) ==
    IF ok /\ id \in DOMAIN users /\ users[id] # NoUser
    THEN [id |-> id, email |-> users[id].email, role |-> users[id].role,
          password_hash |-> users[id].password_hash]
    ELSE Nil

\* email TEXT UNIQUE: another row already has this email
EmailTaken(email, id) ==
    \E u \in DOMAIN users : u # id /\ users[u] # NoUser /\ users[u].email = email

\* UserRepo.Update: email, name, phone and role from the struct, the
\* password hash is not among the columns written
UserRepo_Update(user) ==
    IF user.id \in DOMAIN users /\ users[user.id] # NoUser
    THEN [users EXCEPT ![user.id] = [@ EXCEPT !.email = user.email, !.role = user.role]]
    ELSE users

\* UserRepo.Create
UserRepo_Create(user) ==
    Append(users, [email |-> user.email, role |-> user.role,
                   password_hash |-> user.password_hash])

\* UserRepo.Delete.  Foreign keys are not switched on for the connection,
\* so the rows that refer to the user stay as they are.
UserRepo_Delete(id) ==
    IF id \in DOMAIN users THEN [users EXCEPT ![id] = NoUser] ELSE users

\* A variant with the foreign keys enforced: changed_by ... ON DELETE SET
\* NULL rewrites the rows of the deleted user; the append-only property C15
\* must tell it apart.
HistoryAfterDelete_setNull(id) ==
    [k \in 1..Len(history) |->
        IF history[k].changed_by = NullInt64(id)
        THEN [history[k] EXCEPT !.changed_by = NULL]
        ELSE history[k]]

\* ticket_status_history after DELETE FROM users WHERE id = ?: the
\* connection is opened without the foreign_keys pragma, the REFERENCES
\* clauses are not enforced and the rows stay as they are
HistoryAfterDelete(id) == history

\* The handler goes on to its next statement with the user it holds
ContinueUser(i, pc, req, claims, user) ==
    inflight' = [inflight EXCEPT ![i] = [pc |-> pc, req |-> req, claims |-> claims,
                                         ticket |-> NoTicket, user |-> user]]

\* handleUpdateUser: the admin's form for a user
handleUpdateUser(i, cred, id, email, role, password, ok) ==
    LET req == [Request("handleUpdateUser", id, "", "", 0) EXCEPT
                    !.email = email, !.password = password, !.role = role]
        gate == ServeHTTP(req.handler, cred, now)
        claims == getUserClaims(gate.claims)
        user == UserRepo_GetByID(id, ok)
        resp == IF ~gate.handler THEN gate.resp
                ELSE IF user = Nil THEN NotFound ELSE NoResp
        edited == [user EXCEPT !.email = email, !.role = role,
                               !.password_hash = IF password # ""
                                                 THEN hashPassword(password) ELSE @]
    IN  /\ CanAccept(i)
        /\ served' = served + 1
        /\ IF resp # NoResp
           THEN Respond(i)
           ELSE IF email # user.email
           THEN ContinueUser(i, "UpdateUser_email", req, claims, user)
           ELSE ContinueUser(i, "UpdateUser_update", req, claims, edited)
        /\ last' = Arrived(i, req, cred, gate, NoTicket, resp)
        /\ UNCHANGED <<ticket_parts, surveys, ads, tasks, srv, now, users, bookings, tickets, history, issued>>

\* The duplicate check, when the email of the form is not the stored one;
\* an error of the query counts as no such user
UpdateUser_email(i, ok) ==
    LET r == inflight[i]
        existing == IF ok THEN UserRepo_GetByEmail(r.req.email) ELSE Nil
        edited == [r.user EXCEPT !.email = r.req.email, !.role = r.req.role,
                                 !.password_hash = IF r.req.password # ""
                                                   THEN hashPassword(r.req.password) ELSE @]
    IN  /\ r.pc = "UpdateUser_email"
        /\ IF existing # Nil
           THEN /\ Respond(i)
                /\ last' = Stepped(i, "UpdateUser_email", NoTicket, ok,
                                   Page("pages/admin/user_form.html",
                                        "El email ya esta registrado"))
           ELSE /\ ContinueUser(i, "UpdateUser_update", r.req, r.claims, edited)
                /\ last' = Stepped(i, "UpdateUser_email", NoTicket, ok, NoResp)
        /\ UNCHANGED <<ticket_parts, surveys, ads, tasks, srv, now, users, bookings, tickets, history, issued, served>>

\* UserRepo.Update with the struct read earlier
UpdateUser_update(i, ok) ==
    LET r == inflight[i]
        done == ok /\ ~EmailTaken(r.user.email, r.user.id)
    IN  /\ r.pc = "UpdateUser_update"
        /\ users' = IF done THEN UserRepo_Update(r.user) ELSE users
        /\ Respond(i)
        /\ last' = Stepped(i, "UpdateUser_update", NoTicket, done,
                           IF done THEN Redirect(<<"/admin/users">>, "")
                           ELSE HttpError(500, "Error updating user"))
        /\ UNCHANGED <<ticket_parts, surveys, ads, tasks, srv, now, bookings, tickets, history, issued, served>>

\* handleDeleteUser: one statement
handleDeleteUser(i, cred, id, ok) ==
    LET req == Request("handleDeleteUser", id, "", "", 0)
        gate == ServeHTTP(req.handler, cred, now)
        resp == IF ~gate.handler THEN gate.resp
                ELSE IF ok THEN Redirect(<<"/admin/users">>, "")
                ELSE HttpError(500, "Error deleting user")
    IN  /\ CanAccept(i)
        /\ served' = served + 1
        /\ users' = IF gate.handler /\ ok THEN UserRepo_Delete(id) ELSE users
        /\ history' = IF gate.handler /\ ok THEN HistoryAfterDelete(id) ELSE history
        /\ Respond(i)
        /\ last' = Arrived(i, req, cred, gate, NoTicket, resp)
        /\ UNCHANGED <<ticket_parts, surveys, ads, tasks, srv, now, bookings, tickets, issued>>

\* handleUpdateProfile: the user's own form; it reads the row of
\* claims.UserID and sets name and phone on the struct
handleUpdateProfile(i, cred, ok) ==
    LET req == Request("handleUpdateProfile", 0, "", "", 0)
        gate == ServeHTTP(req.handler, cred, now)
        claims == getUserClaims(gate.claims)
        user == UserRepo_GetByID(claims.UserID, ok)
        resp == IF ~gate.handler THEN gate.resp
                ELSE IF user = Nil THEN HttpError(500, "User not found") ELSE NoResp
    IN  /\ CanAccept(i)
        /\ served' = served + 1
        /\ IF resp = NoResp
           THEN ContinueUser(i, "UpdateProfile_update", req, claims, user)
           ELSE Respond(i)
        /\ last' = Arrived(i, req, cred, gate, NoTicket, resp)
        /\ UNCHANGED <<ticket_parts, surveys, ads, tasks, srv, now, users, bookings, tickets, history, issued>>

\* UserRepo.Update with the struct read earlier
UpdateProfile_update(i, ok) ==
    LET r == inflight[i]
        done == ok /\ ~EmailTaken(r.user.email, r.user.id)
    IN  /\ r.pc = "UpdateProfile_update"
        /\ users' = IF done THEN UserRepo_Update(r.user) ELSE users
        /\ Respond(i)
        /\ last' = Stepped(i, "UpdateProfile_update", NoTicket, done,
                           IF done THEN Page("pages/customer/profile.html",
                                             "Perfil actualizado")
                           ELSE HttpError(500, "Error updating profile"))
        /\ UNCHANGED <<ticket_parts, surveys, ads, tasks, srv, now, bookings, tickets, history, issued, served>>

\* handleRegister: the public form; the role stored is always customer
handleRegister(i, email, password, confirm, ok) ==
    LET req == [Request("handleRegister", 0, "", "", 0) EXCEPT
                    !.email = email, !.password = password]
        gate == ServeHTTP(req.handler, NoCred, now)
        existingUser == IF ok THEN UserRepo_GetByEmail(email) ELSE Nil
        resp == IF password # confirm
                THEN Page("pages/public/register.html", "Las contrasenas no coinciden")
                ELSE IF existingUser # Nil
                THEN Page("pages/public/register.html", "El email ya esta registrado")
                ELSE NoResp
        user == [id |-> 0, email |-> email, role |-> RoleCustomer,
                 password_hash |-> hashPassword(password)]
    IN  /\ gate.handler
        /\ CanAccept(i)
        /\ served' = served + 1
        /\ IF resp = NoResp
           THEN ContinueUser(i, "Register_create", req, NoClaims, user)
           ELSE Respond(i)
        /\ last' = Arrived(i, req, NoCred, gate, NoTicket, resp)
        /\ UNCHANGED <<ticket_parts, surveys, ads, tasks, srv, now, users, bookings, tickets, history, issued>>

\* UserRepo.Create, INSERT INTO users
Register_create(i, ok) ==
    LET r == inflight[i]
        done == ok /\ ~EmailTaken(r.user.email, 0)
    IN  /\ r.pc = "Register_create"
        /\ users' = IF done THEN UserRepo_Create(r.user) ELSE users
        /\ Respond(i)
        /\ last' = Stepped(i, "Register_create", NoTicket, done,
                           IF done THEN Redirect(<<"/login">>, "registered=1")
                           ELSE HttpError(500, "Error creating user"))
        /\ UNCHANGED <<ticket_parts, surveys, ads, tasks, srv, now, bookings, tickets, history, issued, served>>

----------------------------------------------------------------------------
(* handleCreateTicketDirect: the walk-in form *)

\* The handler goes on with the user and the booking it holds
ContinueDirect(i, pc, user, booking, ticket) ==
    inflight' = [inflight EXCEPT ![i] = [pc |-> pc, req |-> @.req, claims |-> @.claims,
                                         ticket |-> ticket, user |-> user,
                                         booking |-> booking]]

\* The request arrives and passes the gates; Users.GetByEmail, whose error
\* is taken for "no such user"
handleCreateTicketDirect(i, cred, email, notes, ok) ==
    LET req == [Request("handleCreateTicketDirect", 0, "", notes, 0) EXCEPT
                    !.email = email]
        gate == ServeHTTP(req.handler, cred, now)
        claims == getUserClaims(gate.claims)
        user == IF ok THEN UserRepo_GetByEmail(email) ELSE Nil
    IN  /\ CanAccept(i)
        /\ served' = served + 1
        /\ IF gate.handler
           THEN inflight' = [inflight EXCEPT ![i] =
                    [pc |-> IF user = Nil THEN "Direct_createUser" ELSE "Direct_bicycle",
                     req |-> req, claims |-> claims, ticket |-> NoTicket,
                     user |-> IF user = Nil THEN 0 ELSE user.id, booking |-> 0]]
           ELSE Respond(i)
        /\ last' = Arrived(i, req, cred, gate, NoTicket,
                           IF gate.handler THEN NoResp ELSE gate.resp)
        /\ UNCHANGED <<ticket_parts, surveys, ads, tasks, srv, now, users, bookings,
                       tickets, history, issued>>

\* Users.Create with the placeholder password; the email is UNIQUE
Direct_createUser(i, ok) ==
    LET r == inflight[i]
        done == ok /\ ~EmailTaken(r.req.email, 0)
    IN  /\ r.pc = "Direct_createUser"
        /\ users' = IF done
                    THEN UserRepo_Create([email |-> r.req.email, role |-> RoleCustomer,
                                          password_hash |-> hashPassword("123456")])
                    ELSE users
        /\ IF done
           THEN ContinueDirect(i, "Direct_refetch", 0, 0, NoTicket)
           ELSE Respond(i)
        /\ last' = Stepped(i, "Direct_createUser", NoTicket, done,
                           IF done THEN NoResp
                           ELSE HttpError(500, "Error creating user"))
        /\ UNCHANGED <<ticket_parts, surveys, ads, tasks, srv, now, bookings, tickets,
                       history, issued, served>>

\* user, _ = Users.GetByEmail: when the query fails user is nil, and user.ID
\* panics further down; middleware.Recoverer answers 500
Direct_refetch(i, ok) ==
    LET r == inflight[i]
        user == IF ok THEN UserRepo_GetByEmail(r.req.email) ELSE Nil
    IN  /\ r.pc = "Direct_refetch"
        /\ IF user # Nil
           THEN ContinueDirect(i, "Direct_bicycle", user.id, 0, NoTicket)
           ELSE Respond(i)
        /\ last' = Stepped(i, "Direct_refetch", NoTicket, user # Nil,
                           IF user # Nil THEN NoResp
                           ELSE HttpError(500, "Internal Server Error"))
        /\ UNCHANGED <<ticket_parts, surveys, ads, tasks, srv, now, users, bookings,
                       tickets, history, issued, served>>

\* The brand and the model (tables of the catalogue, which nothing here
\* reads, with every error dropped) and Bicycles.Create
Direct_bicycle(i, ok) ==
    LET r == inflight[i]
    IN  /\ r.pc = "Direct_bicycle"
        /\ IF ok
           THEN ContinueDirect(i, "Direct_booking", r.user, 0, NoTicket)
           ELSE Respond(i)
        /\ last' = Stepped(i, "Direct_bicycle", NoTicket, ok,
                           IF ok THEN NoResp
                           ELSE HttpError(500, "Error creating bicycle"))
        /\ UNCHANGED <<ticket_parts, surveys, ads, tasks, srv, now, users, bookings,
                       tickets, history, issued, served>>

\* Bookings.Create: a confirmed booking for now; then the ticket struct,
\* which names no technician
Direct_booking(i, ok) ==
    LET r == inflight[i]
        id == Len(bookings) + 1
        ticket == [ID |-> 0, BookingID |-> id, TechnicianID |-> 0,
                   Status |-> TicketStatusReceived, Notes |-> r.req.notes]
    IN  /\ r.pc = "Direct_booking"
        /\ bookings' = IF ok
                       THEN Append(bookings, [customer_id |-> r.user,
                                              status |-> BookingStatusConfirmed])
                       ELSE bookings
        /\ IF ok
           THEN ContinueDirect(i, "Direct_ticket", r.user, id, ticket)
           ELSE Respond(i)
        /\ last' = Stepped(i, "Direct_booking", NoTicket, ok,
                           IF ok THEN NoResp
                           ELSE HttpError(500, "Error creating booking"))
        /\ UNCHANGED <<ticket_parts, surveys, ads, tasks, srv, now, users, tickets,
                       history, issued, served>>

\* TicketRepo.Create, INSERT INTO tickets
Direct_ticket(i, ok) ==
    LET r == inflight[i]
        ticket == [r.ticket EXCEPT !.ID = Len(tickets) + 1]
    IN  /\ r.pc = "Direct_ticket"
        /\ tickets' = IF ok
                      THEN Append(tickets,
                               [booking_id |-> ticket.BookingID,
                                technician_id |-> ticket.TechnicianID,
                                status |-> ticket.Status, notes |-> ticket.Notes])
                      ELSE tickets
        /\ IF ok
           THEN ContinueDirect(i, "Direct_history", r.user, r.booking, ticket)
           ELSE Respond(i)
        /\ last' = Stepped(i, "Direct_ticket", IF ok THEN ticket ELSE r.ticket, ok,
                           IF ok THEN NoResp
                           ELSE HttpError(500, "Error creating ticket"))
        /\ UNCHANGED <<ticket_parts, surveys, ads, tasks, srv, now, users, bookings,
                       history, issued, served>>

\* A variant that names the technician at the counter as the author of
\* the row; the creation property C22 must tell it apart.
Direct_history_byCreator(i, ok) ==
    LET r == inflight[i]
    IN  /\ r.pc = "Direct_history"
        /\ history' = IF ok
                      THEN TicketRepo_CreateStatusHistory(r.ticket.ID, r.ticket.Status,
                               r.claims.UserID, "Ticket creado")
                      ELSE history
        /\ Respond(i)
        /\ last' = Stepped(i, "Direct_history", r.ticket, ok,
                           Redirect(TicketPath(r.ticket.ID), ""))
        /\ UNCHANGED <<ticket_parts, surveys, ads, tasks, srv, now, users, bookings,
                       tickets, issued, served>>

\* TicketRepo.Create, the initial history record: a failure is only
\* printed; then the redirect to the new ticket
Direct_history(i, ok) ==
    LET r == inflight[i]
    IN  /\ r.pc = "Direct_history"
        /\ history' = IF ok
                      THEN TicketRepo_CreateStatusHistory(r.ticket.ID, r.ticket.Status,
                               r.ticket.TechnicianID, "Ticket creado")
                      ELSE history
        /\ Respond(i)
        /\ last' = Stepped(i, "Direct_history", r.ticket, ok,
                           Redirect(TicketPath(r.ticket.ID), ""))
        /\ UNCHANGED <<ticket_parts, surveys, ads, tasks, srv, now, users, bookings,
                       tickets, issued, served>>

----------------------------------------------------------------------------
(* The checklist: handleCreateTicketPart, handleToggleTicketPart,
   handleDeleteTicketPart *)

\* A deleted row of ticket_parts; ids are not used again
NoPart == [ticket_id |-> 0, name |-> "", status |-> ""]

\* The request of a checklist handler: the ticket id and the part id of
\* the URL, the name of the form, the HX-Request header
PartRequest(handler, ticketID, partID, name, hx) ==
    [handler |-> handler, id |-> ticketID, partId |-> partID, name |-> name, hx |-> hx]

\* The security check of the three handlers: a technician is refused when
\* the ticket of the URL is found and is assigned to somebody else.  No
\* ticket, or a failed query, passes; an admin is not checked.
PartSecurityCheck(claims, ticketID, ok) ==
    LET ticket == TicketRepo_GetByID(ticketID, ok)
    IN  IF claims.Role = RoleTechnician /\ ticket # Nil
           /\ ticket.TechnicianID # claims.UserID
        THEN HttpError(403, "Forbidden")
        ELSE NoResp

\* The step of a checklist request, as the last step
PartStepped(i, step, ok, resp) ==
    Stepped(i, step, NoTicket, ok, resp)

\* What the toggle and the delete handlers answer in the end
PartAnswer(req) ==
    IF req.handler = "handleToggleTicketPart" /\ req.hx
    THEN [NoResp EXCEPT !.code = 200]
    ELSE Redirect(TicketPath(req.id), "")

handleCreateTicketPart(i, cred, ticketID, name, ok) ==
    LET req == PartRequest("handleCreateTicketPart", ticketID, 0, name, FALSE)
        gate == ServeHTTP(req.handler, cred, now)
        claims == getUserClaims(gate.claims)
        resp == IF ~gate.handler THEN gate.resp
                ELSE IF name = "" THEN Redirect(TicketPath(ticketID), "")
                ELSE PartSecurityCheck(claims, ticketID, ok)
    IN  /\ CanAccept(i)
        /\ served' = served + 1
        /\ IF resp = NoResp
           THEN Continue(i, "CreateTicketPart_insert", req, claims, NoTicket)
           ELSE Respond(i)
        /\ last' = Arrived(i, req, cred, gate, NoTicket, resp)
        /\ UNCHANGED <<ticket_parts, surveys, ads, tasks, srv, now, users, bookings,
                       tickets, history, issued>>

\* TicketRepo.CreateTicketPart: the error is printed, the answer is the same
CreateTicketPart_insert(i, ok) ==
    LET r == inflight[i]
    IN  /\ r.pc = "CreateTicketPart_insert"
        /\ ticket_parts' = IF ok
                           THEN Append(ticket_parts,
                                       [ticket_id |-> r.req.id, name |-> r.req.name,
                                        status |-> "pending"])
                           ELSE ticket_parts
        /\ Respond(i)
        /\ last' = PartStepped(i, "CreateTicketPart_insert", ok,
                               Redirect(TicketPath(r.req.id), ""))
        /\ UNCHANGED <<surveys, ads, tasks, srv, now, users, bookings, tickets, history,
                       issued, served>>

handleToggleTicketPart(i, cred, ticketID, partID, hx, ok) ==
    LET req == PartRequest("handleToggleTicketPart", ticketID, partID, "", hx)
        gate == ServeHTTP(req.handler, cred, now)
        claims == getUserClaims(gate.claims)
        resp == IF ~gate.handler THEN gate.resp
                ELSE PartSecurityCheck(claims, ticketID, ok)
    IN  /\ CanAccept(i)
        /\ served' = served + 1
        /\ IF resp = NoResp
           THEN Continue(i, "ToggleTicketPart_select", req, claims, NoTicket)
           ELSE Respond(i)
        /\ last' = Arrived(i, req, cred, gate, NoTicket, resp)
        /\ UNCHANGED <<ticket_parts, surveys, ads, tasks, srv, now, users, bookings,
                       tickets, history, issued>>

\* ToggleTicketPartStatus, SELECT status FROM ticket_parts WHERE id = ?: no
\* row or a failed query ends the toggle, the answer is the same
ToggleTicketPart_select(i, ok) ==
    LET r == inflight[i]
        found == ok /\ r.req.partId \in 1..Len(ticket_parts)
                 /\ ticket_parts[r.req.partId] # NoPart
        newStatus == IF found /\ ticket_parts[r.req.partId].status = "done"
                     THEN "pending" ELSE "done"
    IN  /\ r.pc = "ToggleTicketPart_select"
        /\ IF found
           THEN inflight' = [inflight EXCEPT ![i] =
                                [@ EXCEPT !.pc = "ToggleTicketPart_update",
                                          !.req = @ @@ [newStatus |-> newStatus]]]
           ELSE Respond(i)
        /\ last' = PartStepped(i, "ToggleTicketPart_select", found,
                               IF found THEN NoResp ELSE PartAnswer(r.req))
        /\ UNCHANGED <<ticket_parts, surveys, ads, tasks, srv, now, users, bookings,
                       tickets, history, issued, served>>

\* ToggleTicketPartStatus, UPDATE ticket_parts SET status = ? WHERE id = ?
ToggleTicketPart_update(i, ok) ==
    LET r == inflight[i]
        id == r.req.partId
    IN  /\ r.pc = "ToggleTicketPart_update"
        /\ ticket_parts' = IF ok /\ ticket_parts[id] # NoPart
                           THEN [ticket_parts EXCEPT ![id].status = r.req.newStatus]
                           ELSE ticket_parts
        /\ Respond(i)
        /\ last' = PartStepped(i, "ToggleTicketPart_update", ok, PartAnswer(r.req))
        /\ UNCHANGED <<surveys, ads, tasks, srv, now, users, bookings, tickets, history,
                       issued, served>>

handleDeleteTicketPart(i, cred, ticketID, partID, ok) ==
    LET req == PartRequest("handleDeleteTicketPart", ticketID, partID, "", FALSE)
        gate == ServeHTTP(req.handler, cred, now)
        claims == getUserClaims(gate.claims)
        resp == IF ~gate.handler THEN gate.resp
                ELSE PartSecurityCheck(claims, ticketID, ok)
    IN  /\ CanAccept(i)
        /\ served' = served + 1
        /\ IF resp = NoResp
           THEN Continue(i, "DeleteTicketPart_delete", req, claims, NoTicket)
           ELSE Respond(i)
        /\ last' = Arrived(i, req, cred, gate, NoTicket, resp)
        /\ UNCHANGED <<ticket_parts, surveys, ads, tasks, srv, now, users, bookings,
                       tickets, history, issued>>

\* TicketRepo.DeleteTicketPart, DELETE FROM ticket_parts WHERE id = ?
DeleteTicketPart_delete(i, ok) ==
    LET r == inflight[i]
        id == r.req.partId
    IN  /\ r.pc = "DeleteTicketPart_delete"
        /\ ticket_parts' = IF ok /\ id \in 1..Len(ticket_parts)
                           THEN [ticket_parts EXCEPT ![id] = NoPart]
                           ELSE ticket_parts
        /\ Respond(i)
        /\ last' = PartStepped(i, "DeleteTicketPart_delete", ok, PartAnswer(r.req))
        /\ UNCHANGED <<surveys, ads, tasks, srv, now, users, bookings, tickets, history,
                       issued, served>>

----------------------------------------------------------------------------
(* The printouts and the bicycle of a booking: handleTicketLabel,
   handleTicketQuote, handleCreateBicycleFromBooking *)

\* What middleware.Recoverer answers when the handler panics
Recovered == HttpError(500, "Internal Server Error")

\* BookingRepo.Update: the columns of the struct, status among them
BookingRepo_Update(booking) ==
    IF booking.ID \in 1..Len(bookings)
    THEN UpdateRow(bookings, booking.ID,
                   [bookings[booking.ID] EXCEPT !.status = booking.Status])
    ELSE bookings

\* The first statement of the two printouts: only the error of
\* Tickets.GetByID is looked at, so no row leaves ticket nil and
\* ticket.BookingID panics
PrintoutLookup(id, ok) ==
    LET ticket == TicketRepo_GetByID(id, ok)
    IN  IF ~ok THEN NotFound
        ELSE IF ticket = Nil THEN Recovered
        ELSE NoResp

\* handleTicketLabel
handleTicketLabel(i, cred, id, ok) ==
    LET req == Request("handleTicketLabel", id, "", "", 0)
        gate == ServeHTTP(req.handler, cred, now)
        claims == getUserClaims(gate.claims)
        resp == IF ~gate.handler THEN gate.resp ELSE PrintoutLookup(id, ok)
    IN  /\ CanAccept(i)
        /\ served' = served + 1
        /\ IF resp = NoResp
           THEN Continue(i, "TicketLabel_render", req, claims, TicketRepo_GetByID(id, ok))
           ELSE Respond(i)
        /\ last' = Arrived(i, req, cred, gate, NoTicket, resp)
        /\ UNCHANGED <<ticket_parts, surveys, ads, tasks, srv, now, users, bookings,
                       tickets, history, issued>>

\* The booking, its bicycle and its customer, every error dropped, and the
\* label
TicketLabel_render(i, ok) ==
    LET r == inflight[i]
    IN  /\ r.pc = "TicketLabel_render"
        /\ Respond(i)
        /\ last' = Stepped(i, "TicketLabel_render", r.ticket, ok,
                           Page("pages/technician/ticket_label.html", ""))
        /\ UNCHANGED <<ticket_parts, surveys, ads, tasks, srv, now, users, bookings,
                       tickets, history, issued, served>>

\* handleTicketQuote
handleTicketQuote(i, cred, id, ok) ==
    LET req == Request("handleTicketQuote", id, "", "", 0)
        gate == ServeHTTP(req.handler, cred, now)
        claims == getUserClaims(gate.claims)
        resp == IF ~gate.handler THEN gate.resp ELSE PrintoutLookup(id, ok)
    IN  /\ CanAccept(i)
        /\ served' = served + 1
        /\ IF resp = NoResp
           THEN Continue(i, "TicketQuote_render", req, claims, TicketRepo_GetByID(id, ok))
           ELSE Respond(i)
        /\ last' = Arrived(i, req, cred, gate, NoTicket, resp)
        /\ UNCHANGED <<ticket_parts, surveys, ads, tasks, srv, now, users, bookings,
                       tickets, history, issued>>

\* The booking and the rest, every error dropped, then the quote of the
\* booking (the store may have one or not) and the page
TicketQuote_render(i, quote) ==
    LET r == inflight[i]
    IN  /\ r.pc = "TicketQuote_render"
        /\ Respond(i)
        /\ last' = Stepped(i, "TicketQuote_render", r.ticket, quote,
                           IF quote THEN Page("pages/technician/ticket_quote.html", "")
                           ELSE HttpError(404, "Presupuesto no encontrado"))
        /\ UNCHANGED <<ticket_parts, surveys, ads, tasks, srv, now, users, bookings,
                       tickets, history, issued, served>>

\* handleCreateBicycleFromBooking: only the error of Bookings.GetByID is
\* looked at, so no row leaves booking nil and booking.CustomerID panics
handleCreateBicycleFromBooking(i, cred, bookingID, ok) ==
    LET req == Request("handleCreateBicycleFromBooking", bookingID, "", "", 0)
        gate == ServeHTTP(req.handler, cred, now)
        claims == getUserClaims(gate.claims)
        booking == BookingRepo_GetByID(bookingID, ok)
        resp == IF ~gate.handler THEN gate.resp
                ELSE IF ~ok THEN HttpError(404, "Booking not found")
                ELSE IF booking = Nil THEN Recovered
                ELSE NoResp
    IN  /\ CanAccept(i)
        /\ served' = served + 1
        /\ IF resp = NoResp
           THEN inflight' = [inflight EXCEPT ![i] =
                                [pc |-> "CreateBicycle_create", req |-> req,
                                 claims |-> claims, ticket |-> NoTicket,
                                 booking |-> booking]]
           ELSE Respond(i)
        /\ last' = Arrived(i, req, cred, gate, NoTicket, resp)
        /\ UNCHANGED <<ticket_parts, surveys, ads, tasks, srv, now, users, bookings,
                       tickets, history, issued>>

\* Bicycles.Create (a table nothing here reads)
CreateBicycle_create(i, ok) ==
    LET r == inflight[i]
    IN  /\ r.pc = "CreateBicycle_create"
        /\ IF ok
           THEN inflight' = [inflight EXCEPT ![i].pc = "CreateBicycle_link"]
           ELSE Respond(i)
        /\ last' = Stepped(i, "CreateBicycle_create", NoTicket, ok,
                           IF ok THEN NoResp
                           ELSE HttpError(500, "Error creating bicycle"))
        /\ UNCHANGED <<ticket_parts, surveys, ads, tasks, srv, now, users, bookings,
                       tickets, history, issued, served>>

\* Bookings.Update with the struct read at the start
CreateBicycle_link(i, ok) ==
    LET r == inflight[i]
    IN  /\ r.pc = "CreateBicycle_link"
        /\ bookings' = IF ok THEN BookingRepo_Update(r.booking) ELSE bookings
        /\ Respond(i)
        /\ last' = Stepped(i, "CreateBicycle_link", NoTicket, ok,
                           IF ok THEN Redirect(<<"/workshop">>, "")
                           ELSE HttpError(500, "Error linking bicycle"))
        /\ UNCHANGED <<ticket_parts, surveys, ads, tasks, srv, now, users, tickets,
                       history, issued, served>>

----------------------------------------------------------------------------
(* Surveys: SurveyRepo, handlePublicSubmitSurvey, handleSurveyPage,
   handleSubmitSurvey *)

\* The request of a survey handler: the tracking code or the ticket id of
\* the URL (the model takes the id for the code), the rating of the form
SurveyRequest(handler, id, rating) ==
    [handler |-> handler, id |-> id, rating |-> rating]

\* SurveyRepo.GetByTicketID: the first row of the ticket, nil when there is
\* none or the query fails
SurveyRepo_GetByTicketID(ticketID, ok) ==
    LET rows == {k \in 1..Len(surveys) : surveys[k].ticket_id = ticketID}
    IN  IF ok /\ rows # {}
        THEN surveys[CHOOSE k \in rows : \A j \in rows : k <= j]
        ELSE Nil

\* CHECK (rating >= 1 AND rating <= 5) of the surveys table
RatingCheck(rating) == rating \in 1..5

\* SurveyRepo.Create; the table has no other constraint in force
SurveyRepo_Create(ticketID, rating) ==
    Append(surveys, [ticket_id |-> ticketID, rating |-> rating])

TrackingPath(code) == <<"/tracking", code>>

\* handlePublicSubmitSurvey: the ticket of the code and the check of its
\* status
handlePublicSubmitSurvey(i, code, rating, ok) ==
    LET req == SurveyRequest("handlePublicSubmitSurvey", code, rating)
        gate == ServeHTTP(req.handler, NoCred, now)
        ticket == TicketRepo_GetByID(code, ok)
        resp == IF ticket = Nil THEN HttpError(404, "Ticket not found")
                ELSE IF ticket.Status # TicketStatusDelivered
                        /\ ticket.Status # TicketStatusReady
                THEN HttpError(400, "Survey not available for this ticket status")
                ELSE NoResp
    IN  /\ CanAccept(i)
        /\ served' = served + 1
        /\ IF resp = NoResp
           THEN Continue(i, "PublicSubmitSurvey_existing", req, NoClaims, ticket)
           ELSE Respond(i)
        /\ last' = Arrived(i, req, NoCred, gate, NoTicket, resp)
        /\ UNCHANGED <<ticket_parts, surveys, ads, tasks, srv, now, users, bookings,
                       tickets, history, issued>>

\* Surveys.GetByTicketID, its error dropped
PublicSubmitSurvey_existing(i, ok) ==
    LET r == inflight[i]
        existing == SurveyRepo_GetByTicketID(r.ticket.ID, ok)
    IN  /\ r.pc = "PublicSubmitSurvey_existing"
        /\ IF existing # Nil
           THEN /\ Respond(i)
                /\ last' = Stepped(i, "PublicSubmitSurvey_existing", r.ticket, ok,
                                   Redirect(TrackingPath(r.req.id), ""))
           ELSE /\ Continue(i, "PublicSubmitSurvey_create", r.req, r.claims, r.ticket)
                /\ last' = Stepped(i, "PublicSubmitSurvey_existing", r.ticket, ok, NoResp)
        /\ UNCHANGED <<ticket_parts, surveys, ads, tasks, srv, now, users, bookings,
                       tickets, history, issued, served>>

\* Surveys.Create
PublicSubmitSurvey_create(i, ok) ==
    LET r == inflight[i]
        done == ok /\ RatingCheck(r.req.rating)
    IN  /\ r.pc = "PublicSubmitSurvey_create"
        /\ surveys' = IF done THEN SurveyRepo_Create(r.ticket.ID, r.req.rating)
                      ELSE surveys
        /\ Respond(i)
        /\ last' = Stepped(i, "PublicSubmitSurvey_create", r.ticket, done,
                           IF done
                           THEN Redirect(TrackingPath(r.req.id), "survey_submitted=true")
                           ELSE HttpError(500, "Error submitting survey"))
        /\ UNCHANGED <<ticket_parts, ads, tasks, srv, now, users, bookings, tickets,
                       history, issued, served>>

\* handleSurveyPage: the ticket of the URL
handleSurveyPage(i, cred, ticketID, ok) ==
    LET req == SurveyRequest("handleSurveyPage", ticketID, 0)
        gate == ServeHTTP(req.handler, cred, now)
        claims == getUserClaims(gate.claims)
        ticket == TicketRepo_GetByID(ticketID, ok)
        resp == IF ~gate.handler THEN gate.resp
                ELSE IF ticket = Nil THEN NotFound ELSE NoResp
    IN  /\ CanAccept(i)
        /\ served' = served + 1
        /\ IF resp = NoResp
           THEN Continue(i, "SurveyPage_existing", req, claims, ticket)
           ELSE Respond(i)
        /\ last' = Arrived(i, req, cred, gate, NoTicket, resp)
        /\ UNCHANGED <<ticket_parts, surveys, ads, tasks, srv, now, users, bookings,
                       tickets, history, issued>>

\* Surveys.GetByTicketID, its error dropped, and the page
SurveyPage_existing(i, ok) ==
    LET r == inflight[i]
        existingSurvey == SurveyRepo_GetByTicketID(r.req.id, ok)
    IN  /\ r.pc = "SurveyPage_existing"
        /\ Respond(i)
        /\ last' = Stepped(i, "SurveyPage_existing", r.ticket, ok,
                           IF existingSurvey # Nil
                           THEN Page("pages/customer/survey_completed.html",
                                     "Ya has completado esta encuesta")
                           ELSE Page("pages/customer/survey.html", ""))
        /\ UNCHANGED <<ticket_parts, surveys, ads, tasks, srv, now, users, bookings,
                       tickets, history, issued, served>>

\* handleSubmitSurvey: Surveys.Create with the ticket id of the URL
handleSubmitSurvey(i, cred, ticketID, rating, ok) ==
    LET req == SurveyRequest("handleSubmitSurvey", ticketID, rating)
        gate == ServeHTTP(req.handler, cred, now)
        done == gate.handler /\ ok /\ RatingCheck(rating)
        resp == IF ~gate.handler THEN gate.resp
                ELSE IF done
                THEN Page("pages/customer/survey_completed.html",
                          "Gracias por tu opinion")
                ELSE HttpError(500, "Error submitting survey")
    IN  /\ CanAccept(i)
        /\ served' = served + 1
        /\ surveys' = IF done THEN SurveyRepo_Create(ticketID, rating) ELSE surveys
        /\ Respond(i)
        /\ last' = Arrived(i, req, cred, gate, NoTicket, resp)
        /\ UNCHANGED <<ticket_parts, ads, tasks, srv, now, users, bookings, tickets,
                       history, issued>>

----------------------------------------------------------------------------
(* Ads: AdRepo, the tracking page and the ad click *)

\* Server.Run before any signal: the listener is open
Serving == [state |-> "serving", listening |-> TRUE, elapsed |-> 0, forced |-> FALSE]

\* One ad on show with a link, one switched off without a link
InitAds ==
    <<[active |-> TRUE, link_url |-> "https://ad.example", impressions |-> 0, clicks |-> 0],
      [active |-> FALSE, link_url |-> "", impressions |-> 0, clicks |-> 0]>>

\* http.Redirect(..., http.StatusFound)
Found(loc) == [Redirect(loc, "") EXCEPT !.code = 302]

\* AdRepo.GetByID
AdRepo_GetByID(id, ok) ==
    IF ok /\ id \in 1..Len(ads)
    THEN [ID |-> id, LinkURL |-> ads[id].link_url]
    ELSE Nil

\* AdRepo.GetRandomActive: what ORDER BY RANDOM() LIMIT 1 may return, nil
\* alone when no ad is active or the query fails
AdRepo_GetRandomActive(ok) ==
    LET active == {id \in 1..Len(ads) : ads[id].active}
    IN  IF ok /\ active # {}
        THEN {[ID |-> id, LinkURL |-> ads[id].link_url] : id \in active}
        ELSE {Nil}

\* AdRepo.IncrementImpressions
AdRepo_IncrementImpressions(id) ==
    IF id \in 1..Len(ads)
    THEN [ads EXCEPT ![id] = [@ EXCEPT !.impressions = @ + 1]]
    ELSE ads

\* AdRepo.IncrementClicks
AdRepo_IncrementClicks(id) ==
    IF id \in 1..Len(ads)
    THEN [ads EXCEPT ![id] = [@ EXCEPT !.clicks = @ + 1]]
    ELSE ads

\* A variant that counts before it answers, in the handler's own
\* goroutine; the background property C16 must tell it apart.
GoIncrement_inline(kind, id) ==
    [tasks |-> tasks,
     ads |-> IF kind = "IncrementClicks" THEN AdRepo_IncrementClicks(id)
             ELSE AdRepo_IncrementImpressions(id)]

\* go func(id int64) { s.repos.Ads.Increment...(context.Background(), id) }:
\* a goroutine of its own, with a context that nothing cancels
GoIncrement(kind, id) ==
    [tasks |-> Append(tasks, [kind |-> kind, id |-> id]), ads |-> ads]

\* handleAdClick: one query, the goroutine, the redirect
handleAdClick(i, id, ok) ==
    LET req == Request("handleAdClick", id, "", "", 0)
        ad == AdRepo_GetByID(id, ok)
        resp == IF ad = Nil THEN NotFound
                ELSE IF ad.LinkURL # "" THEN Found(<<ad.LinkURL>>)
                ELSE Redirect(<<"/">>, "")
        go == IF ad = Nil THEN [tasks |-> tasks, ads |-> ads]
              ELSE GoIncrement("IncrementClicks", ad.ID)
    IN  /\ CanAccept(i)
        /\ served' = served + 1
        /\ tasks' = go.tasks
        /\ ads' = go.ads
        /\ Respond(i)
        /\ last' = Arrived(i, req, NoCred, ServeHTTP(req.handler, NoCred, now),
                           NoTicket, resp)
        /\ UNCHANGED <<ticket_parts, surveys, srv, now, users, bookings, tickets, history, issued>>

\* handleTrackingStatus: the ticket by its code (the model takes the id for
\* the code), the queries for the page, the ad and the goroutine
handleTrackingStatus(i, code, ok) ==
    LET req == Request("handleTrackingStatus", code, "", "", 0)
        ticket == TicketRepo_GetByID(code, ok)
        resp == IF ticket = Nil
                THEN Page("pages/public/tracking.html", "Codigo de seguimiento no encontrado")
                ELSE NoResp
    IN  /\ CanAccept(i)
        /\ served' = served + 1
        /\ IF ticket = Nil
           THEN /\ Respond(i)
                /\ UNCHANGED <<tasks, ads>>
           ELSE /\ Continue(i, "TrackingStatus_render", req, NoClaims, ticket)
                /\ \E ad \in AdRepo_GetRandomActive(ok) :
                      LET go == IF ad = Nil THEN [tasks |-> tasks, ads |-> ads]
                                ELSE GoIncrement("IncrementImpressions", ad.ID)
                      IN  tasks' = go.tasks /\ ads' = go.ads
        /\ last' = Arrived(i, req, NoCred, ServeHTTP(req.handler, NoCred, now),
                           NoTicket, resp)
        /\ UNCHANGED <<ticket_parts, surveys, srv, now, users, bookings, tickets, history, issued>>

\* The page is rendered, unless the request was cancelled meanwhile (the
\* client went away): then nobody gets an answer
TrackingStatus_render(i, ok) ==
    LET r == inflight[i]
    IN  /\ r.pc = "TrackingStatus_render"
        /\ Respond(i)
        /\ last' = Stepped(i, "TrackingStatus_render", r.ticket, ok,
                           IF ok THEN Page("pages/public/tracking_result.html", "")
                           ELSE NoResp)
        /\ UNCHANGED <<ticket_parts, surveys, ads, tasks, srv, now, users, bookings, tickets, history, issued,
                       served>>

\* One of the goroutines runs its UPDATE; the error it may return is dropped
RunIncrement(k, ok) ==
    LET task == tasks[k]
    IN  /\ k \in 1..Len(tasks)
        /\ ads' = IF ~ok THEN ads
                  ELSE IF task.kind = "IncrementClicks" THEN AdRepo_IncrementClicks(task.id)
                  ELSE AdRepo_IncrementImpressions(task.id)
        /\ tasks' = SubSeq(tasks, 1, k - 1) \o SubSeq(tasks, k + 1, Len(tasks))
        /\ last' = [NoLast EXCEPT !.step = task.kind, !.req.id = task.id, !.at = now,
                                  !.ok = ok]
        /\ UNCHANGED <<ticket_parts, surveys, srv, now, users, bookings, tickets, history, issued, inflight,
                       served>>

----------------------------------------------------------------------------
(* config.Load and the start of main *)

Placeholder == "CHANGE_THIS_SECRET_IN_PRODUCTION"

\* var cfg Config: every field at its zero value.  Host, Business and
\* Features play no part in Load's result and are left out.
ZeroConfig == [debug |-> FALSE, port |-> 0, path |-> "", secret |-> "",
               expirationHours |-> 0]

\* What os.ReadFile and json.Unmarshal can give for config.json
NotExist   == [kind |-> "not exist"]
Unreadable == [kind |-> "unreadable"]
Unparsable == [kind |-> "unparsable"]
ConfigFile(cfg) == [kind |-> "json", cfg |-> cfg]

\* strconv.Atoi on the values PORT takes here
Atoi(a) == CASE a = "9000" -> [n |-> 9000, err |-> FALSE]
             [] OTHER -> [n |-> 0, err |-> TRUE]

\* filepath.IsLocal and filepath.IsAbs on the cleaned paths used here
IsLocal(path) == path \in {"data/app.db"}
IsAbs(path)   == path \in {"/var/app.db"}

applyEnvOverrides(c, env) ==
    LET c1 == IF env.DEBUG # ""
              THEN [c EXCEPT !.debug = (env.DEBUG = "true" \/ env.DEBUG = "1")]
              ELSE c
        c2 == IF env.PORT # "" /\ ~Atoi(env.PORT).err
              THEN [c1 EXCEPT !.port = Atoi(env.PORT).n]
              ELSE c1
        c3 == IF env.DATABASE_PATH # ""
              THEN [c2 EXCEPT !.path = env.DATABASE_PATH]
              ELSE c2
    IN  IF env.JWT_SECRET # "" THEN [c3 EXCEPT !.secret = env.JWT_SECRET] ELSE c3

\* Load's defaults, between the overrides and validate
SetDefaults(c) ==
    LET c1 == IF c.port = 0 THEN [c EXCEPT !.port = 8080] ELSE c
    IN  IF c1.expirationHours = 0 THEN [c1 EXCEPT !.expirationHours = 24] ELSE c1

SecretError == "JWT secret must be changed for production"

\* A variant that refuses the placeholder in debug mode too; the
\* configuration property C18 must tell it apart.
validate_strict(c) ==
    CASE c.port <= 0 \/ c.port > 65535 -> [err |-> "invalid server port", cfg |-> c]
      [] c.path = "" -> [err |-> "database path is required", cfg |-> c]
      [] ~IsLocal(c.path) /\ ~IsAbs(c.path) ->
            [err |-> "invalid database path: potential path traversal detected",
             cfg |-> c]
      [] c.secret = "" \/ c.secret = Placeholder -> [err |-> SecretError, cfg |-> c]
      [] OTHER ->
            [err |-> "",
             cfg |-> IF c.expirationHours <= 0
                     THEN [c EXCEPT !.expirationHours = 24] ELSE c]

\* (c *Config) validate: the first failing test gives the error
validate(c) ==
    CASE c.port <= 0 \/ c.port > 65535 -> [err |-> "invalid server port", cfg |-> c]
      [] c.path = "" -> [err |-> "database path is required", cfg |-> c]
      [] ~IsLocal(c.path) /\ ~IsAbs(c.path) ->
            [err |-> "invalid database path: potential path traversal detected",
             cfg |-> c]
      [] (c.secret = "" \/ c.secret = Placeholder) /\ ~c.debug ->
            [err |-> SecretError, cfg |-> c]
      [] OTHER ->
            [err |-> "",
             cfg |-> IF c.expirationHours <= 0
                     THEN [c EXCEPT !.expirationHours = 24] ELSE c]

\* The configuration validate is given: the file's, or the zero value
\* when there is no file, with the environment on top and the defaults set
Loaded(file, env) ==
    SetDefaults(applyEnvOverrides(IF file.kind = "json" THEN file.cfg ELSE ZeroConfig,
                                  env))

\* config.Load: (cfg, nil) or (nil, err)
Load(file, env) ==
    CASE file.kind = "unparsable" -> [err |-> "failed to parse config file", cfg |-> Nil]
      [] file.kind = "unreadable" -> [err |-> "failed to read config file", cfg |-> Nil]
      [] OTHER ->
            LET v == validate(Loaded(file, env))
            IN  IF v.err # ""
                THEN [err |-> v.err, cfg |-> Nil]
                ELSE [err |-> "", cfg |-> v.cfg]

\* main before config.Load, with the file and the environment it will find
Booting(file, env) == [state |-> "main", file |-> file, env |-> env,
                       err |-> "", cfg |-> Nil]

\* main calls config.Load; an error ends the process in log.Fatalf
main_Load ==
    /\ srv.state = "main"
    /\ LET r == Load(srv.file, srv.env)
       IN  srv' = [srv EXCEPT !.state = IF r.err # "" THEN "fatal" ELSE "loaded",
                              !.err = r.err, !.cfg = r.cfg]
    /\ last' = [NoLast EXCEPT !.step = "main_Load"]
    /\ UNCHANGED <<ticket_parts, surveys, ads, tasks, now, users, bookings, tickets, history, issued, inflight,
                   served>>

\* main goes on to the database, the templates and srv.Run: the server
\* listens
main_Run ==
    /\ srv.state = "loaded"
    /\ srv' = Serving
    /\ last' = [NoLast EXCEPT !.step = "main_Run"]
    /\ UNCHANGED <<ticket_parts, surveys, ads, tasks, now, users, bookings, tickets, history, issued, inflight,
                   served>>

----------------------------------------------------------------------------
(* Server.Run: serving, the signal, the shutdown *)

\* context.WithTimeout(context.Background(), 30*time.Second), in seconds
GracePeriod == 30

\* ListenAndServe fails (the address is taken, say): Run returns the error
ServerError ==
    /\ srv.state = "serving"
    /\ srv' = [srv EXCEPT !.state = "failed", !.listening = FALSE]
    /\ last' = [NoLast EXCEPT !.step = "ServerError"]
    /\ UNCHANGED <<ticket_parts, surveys, ads, tasks, now, users, bookings, tickets, history, issued, inflight,
                   served>>

\* A variant that leaves the listener open while it waits; the shutdown
\* property C17 must tell it apart.
Signal_keepListening ==
    /\ srv.state = "serving"
    /\ srv' = [srv EXCEPT !.state = "shutdown"]
    /\ last' = [NoLast EXCEPT !.step = "Signal"]
    /\ UNCHANGED <<ticket_parts, surveys, ads, tasks, now, users, bookings, tickets, history, issued, inflight,
                   served>>

\* SIGINT or SIGTERM is delivered: Run starts the 30 s timer and calls
\* http.Server.Shutdown, which closes the listener at once
Signal ==
    /\ srv.state = "serving"
    /\ srv' = [srv EXCEPT !.state = "shutdown", !.listening = FALSE, !.elapsed = 0]
    /\ last' = [NoLast EXCEPT !.step = "Signal"]
    /\ UNCHANGED <<ticket_parts, surveys, ads, tasks, now, users, bookings, tickets, history, issued, inflight,
                   served>>

\* A second of the grace period passes
ShutdownTick ==
    /\ srv.state = "shutdown"
    /\ srv.elapsed < GracePeriod
    /\ srv' = [srv EXCEPT !.elapsed = @ + 1]
    /\ last' = [NoLast EXCEPT !.step = "ShutdownTick"]
    /\ UNCHANGED <<ticket_parts, surveys, ads, tasks, now, users, bookings, tickets, history, issued, inflight,
                   served>>

\* Shutdown finds no request in flight and returns nil; Run returns nil
ShutdownDone ==
    /\ srv.state = "shutdown"
    /\ \A i \in Slots : inflight[i].pc = "idle"
    /\ srv' = [srv EXCEPT !.state = "returned"]
    /\ last' = [NoLast EXCEPT !.step = "ShutdownDone"]
    /\ UNCHANGED <<ticket_parts, surveys, ads, tasks, now, users, bookings, tickets, history, issued, inflight,
                   served>>

\* The timer fires with requests still in flight: Shutdown returns the
\* context's error, Run calls http.Server.Close, which closes their
\* connections, and returns
ShutdownTimeout ==
    /\ srv.state = "shutdown"
    /\ srv.elapsed = GracePeriod
    /\ \E i \in Slots : inflight[i].pc # "idle"
    /\ srv' = [srv EXCEPT !.state = "returned", !.forced = TRUE]
    /\ last' = [NoLast EXCEPT !.step = "ShutdownTimeout"]
    /\ UNCHANGED <<ticket_parts, surveys, ads, tasks, now, users, bookings, tickets, history, issued, inflight,
                   served>>

----------------------------------------------------------------------------
(* The dashboards: handlers that only read and render *)

\* The queries of a dashboard change nothing and their errors are dropped;
\* the page is rendered whatever they return.
ServePage(handler, template, cred) ==
    LET req == [NoReq EXCEPT !.handler = handler]
        gate == ServeHTTP(handler, cred, now)
        resp == IF gate.handler THEN Page(template, "") ELSE gate.resp
    IN  /\ last' = Arrived(0, req, cred, gate, NoTicket, resp)
        /\ UNCHANGED <<ticket_parts, surveys, ads, tasks, srv, now, users, bookings, tickets, history, issued, inflight, served>>

handleDashboard(cred) ==
    ServePage("handleDashboard", "pages/customer/dashboard.html", cred)

handleWorkshopDashboard(cred) ==
    ServePage("handleWorkshopDashboard", "pages/technician/dashboard.html", cred)

handleAdminDashboard(cred) ==
    ServePage("handleAdminDashboard", "pages/admin/dashboard.html", cred)

----------------------------------------------------------------------------
(* handleLogin *)

SetCookie(resp, token) == [resp EXCEPT !.setCookie = token]

\* The redirect after a login, by role
LoginRedirect(role) ==
    CASE role = RoleAdmin -> Redirect(<<"/admin">>, "")
      [] role = RoleTechnician -> Redirect(<<"/workshop">>, "")
      [] OTHER -> Redirect(<<"/dashboard">>, "")

\* One statement (GetByEmail), then the password check, the token and the
\* cookie.  The log issued keeps each token with the user row it was made of.
handleLogin(email, password) ==
    LET req == [NoReq EXCEPT !.handler = "handleLogin", !.email = email,
                             !.password = password]
        gate == ServeHTTP(req.handler, NoCred, now)
        user == UserRepo_GetByEmail(email)
        okLogin == user # Nil /\ checkPasswordHash(password, user.password_hash)
        token == generateToken(user, now)
    IN  /\ gate.handler
        /\ Cardinality(issued) < MaxTokens
        /\ IF okLogin
           THEN /\ issued' = issued \cup {[token |-> token, id |-> user.id,
                                           email |-> user.email, role |-> user.role,
                                           at |-> now]}
                /\ last' = Arrived(0, req, NoCred, gate, NoTicket,
                                   SetCookie(LoginRedirect(user.role), token))
           ELSE /\ issued' = issued
                /\ last' = Arrived(0, req, NoCred, gate, NoTicket,
                                   Page("pages/public/login.html", "Credenciales invalidas"))
        /\ UNCHANGED <<ticket_parts, surveys, ads, tasks, srv, now, users, bookings, tickets, history, inflight, served>>

----------------------------------------------------------------------------
(* Time *)

Tick ==
    /\ now < MaxTime
    /\ now' = now + 1
    /\ last' = NoLast
    /\ UNCHANGED <<ticket_parts, surveys, ads, tasks, srv, users, bookings, tickets, history, issued, inflight, served>>

----------------------------------------------------------------------------
(* The database the shop works on, and what clients send *)

Tech == [A |-> 2, B |-> 3]
Staff == {1, Tech.A, Tech.B}

InitUsers ==
    [u \in 1..4 |->
        [email |-> <<"user", u>>,
         role |-> CASE u = 1 -> RoleAdmin
                    [] u \in {Tech.A, Tech.B} -> RoleTechnician
                    [] OTHER -> RoleCustomer,
         password_hash |-> hashPassword("pw")]]

\* The statuses a ticket went through on its way to s, the technician's way
PathTo(s) ==
    CASE s = TicketStatusReceived -> <<TicketStatusReceived>>
      [] s = TicketStatusDiagnosing -> <<TicketStatusReceived, TicketStatusDiagnosing>>
      [] s = TicketStatusDelivered ->
           <<TicketStatusReceived, TicketStatusDiagnosing, TicketStatusReady,
             TicketStatusDelivered>>
      [] OTHER -> <<TicketStatusReceived, TicketStatusDiagnosing, s>>

InitHistory(s) ==
    [k \in 1..Len(PathTo(s)) |->
        [ticket_id |-> 1, status |-> PathTo(s)[k], changed_by |-> NullInt64(Tech.A),
         notes |-> IF k = 1 THEN "Ticket creado" ELSE ""]]

\* The checklist of ticket 1 has one part
InitParts == <<[ticket_id |-> 1, name |-> "chain", status |-> "pending"]>>

\* Booking 1 became ticket 1, assigned to technician Tech.A and somewhere on
\* its way; booking 2 is still pending.
InitDB(s) ==
    /\ users = InitUsers
    /\ bookings = <<[customer_id |-> 4, status |-> BookingStatusConfirmed],
                    [customer_id |-> 4, status |-> BookingStatusPending]>>
    /\ tickets = <<[booking_id |-> 1, technician_id |-> Tech.A, status |-> s, notes |-> ""]>>
    /\ history = InitHistory(s)

Emails == {InitUsers[u].email : u \in 1..4} \cup {<<"user", 0>>}
Passwords == {"pw", "bad"}
TicketIds == {1}
BookingIds == {2}
TechnicianIds == {0, Tech.A, Tech.B}
NotesInputs == {"n"}

Forged ==
    [claims |-> [UserID |-> 1, Email |-> <<"user", 1>>, Role |-> RoleAdmin,
                 ExpiresAt |-> MaxTime + 1, IssuedAt |-> 0],
     key |-> ForgedKey]

Held == {e.token : e \in issued}

Cookie(t) == [cookie |-> t, header |-> <<>>]
Bearer(t) == [cookie |-> NoCookie, header |-> <<"Bearer", t>>]

\* Sessions of logged-in users
SessionCreds == {Cookie(t) : t \in Held}

\* Sessions of the users U
SessionsOf(U) == {Cookie(e.token) : e \in {x \in issued : x.id \in U}}

\* Everything a client can send
AnyCreds ==
    SessionCreds \cup {Bearer(t) : t \in Held}
      \cup {NoCred, Cookie(Forged), Cookie(Garbage), Bearer(Forged),
            [cookie |-> NoCookie, header |-> <<"Basic", Garbage>>],
            [cookie |-> NoCookie, header |-> <<"Bearer">>]}

\* The requests clients send, with credentials from Creds, for the tickets
\* TIds and the bookings BIds; the store answers each statement with an
\* outcome from Oks
Requests(Creds, TIds, BIds, Statuses, Oks) ==
    \E i \in Slots, cred \in Creds, ok \in Oks :
        \/ \E id \in TIds, status \in Statuses, notes \in NotesInputs :
               handleUpdateTicketStatus(i, cred, id, status, notes, ok)
        \/ \E id \in TIds, notes \in NotesInputs :
               handleAddTicketNotes(i, cred, id, notes, ok)
        \/ \E id \in TIds, techID \in TechnicianIds :
               handleAdminUpdateTicketTechnician(i, cred, id, techID, ok)
        \/ \E id \in BIds : handleCreateTicket(i, cred, id, ok)
        \/ \E id \in BIds : handleCancelBooking(i, cred, id, ok)

\* The statements of the requests in flight
Statements(Oks) ==
    \E i \in Slots, ok \in Oks :
        \/ UpdateStatus_exec(i, ok)
        \/ UpdateStatus_history(i, ok)
        \/ AddTicketNotes_update(i, ok)
        \/ UpdateTicketTechnician_update(i, ok)
        \/ UpdateTicketTechnician_history(i, ok)
        \/ Create_exec(i, ok)
        \/ Create_history(i, ok)
        \/ CreateTicket_booking(i, ok)
        \/ CancelBooking_update(i, ok)

Login == \E email \in Emails, password \in Passwords : handleLogin(email, password)

Pages(Creds) ==
    \E cred \in Creds :
        \/ handleDashboard(cred)
        \/ handleWorkshopDashboard(cred)
        \/ handleAdminDashboard(cred)

\* The tokens of the staff, who logged in when the shop opened
OpeningLogins ==
    {[token |-> generateToken([id |-> u, email |-> InitUsers[u].email,
                               role |-> InitUsers[u].role], 0),
      id |-> u, email |-> InitUsers[u].email, role |-> InitUsers[u].role, at |-> 0]
        : u \in Staff}

Quiet ==
    /\ inflight = [i \in Slots |-> Idle]
    /\ served = 0
    /\ last = NoLast
    /\ ads = InitAds
    /\ tasks = <<>>
    /\ ticket_parts = InitParts
    /\ surveys = <<>>
    /\ srv = Serving

\* Spec: the shop at work.  The staff is logged in, the store executes
\* every statement.
Init ==
    /\ now = 0
    /\ InitDB(TicketStatusDiagnosing)
    /\ issued = OpeningLogins
    /\ Quiet

Next ==
    \/ Requests(SessionCreds, TicketIds, BookingIds, TicketStatuses, {TRUE})
    \/ Statements({TRUE})

Spec == Init /\ [][Next]_vars

\* SpecFault: the admin and a technician at work, and a statement that
\* writes may fail (a busy or full database, the request's context
\* cancelled by the 30 s timeout)
NextFault ==
    \/ Requests(SessionsOf({1, Tech.A}), TicketIds, BookingIds, TicketStatuses, {TRUE})
    \/ Statements(BOOLEAN)

SpecFault == Init /\ [][NextFault]_vars

\* SpecAuth: the gates.  Nobody is logged in at first, time passes, clients
\* send whatever credentials they like.
InitAuth ==
    /\ now = 0
    /\ InitDB(TicketStatusDiagnosing)
    /\ issued = {}
    /\ Quiet

NextAuth ==
    \/ Login
    \/ Tick
    \/ Pages(AnyCreds)

SpecAuth == InitAuth /\ [][NextAuth]_vars

\* SpecTech: the technicians alone, changing the status of tickets
NextTech ==
    \/ \E i \in Slots, cred \in SessionsOf({Tech.A, Tech.B}), id \in TicketIds,
          status \in TicketStatuses, notes \in NotesInputs :
            handleUpdateTicketStatus(i, cred, id, status, notes, TRUE)
    \/ \E i \in Slots : UpdateStatus_exec(i, TRUE) \/ UpdateStatus_history(i, TRUE)

SpecTech == Init /\ [][NextTech]_vars

\* SpecForm: the status form as clients can fill it in.  The admin and a
\* technician create tickets and send status updates whose status field is
\* any string, one of the six or not.
FormStatuses == TicketStatuses \cup {"", "archived"}

NextForm ==
    \/ \E i \in Slots, cred \in SessionsOf({1, Tech.A}) :
        \/ \E id \in TicketIds, status \in FormStatuses, notes \in NotesInputs :
              handleUpdateTicketStatus(i, cred, id, status, notes, TRUE)
        \/ \E id \in BookingIds : handleCreateTicket(i, cred, id, TRUE)
    \/ \E i \in Slots :
        \/ UpdateStatus_exec(i, TRUE)
        \/ UpdateStatus_history(i, TRUE)
        \/ Create_exec(i, TRUE)
        \/ Create_history(i, TRUE)
        \/ CreateTicket_booking(i, TRUE)

SpecForm == Init /\ [][NextForm]_vars

\* SpecHistory: everything that writes near the status history.  The
\* admin and a technician update statuses and notes, the admin reassigns
\* tickets, edits and deletes users; the statements that write may fail.
NextHistory ==
    \/ \E i \in Slots, cred \in SessionsOf({1, Tech.A}) :
        \/ \E id \in TicketIds, status \in {TicketStatusReady, TicketStatusDelivered},
              notes \in NotesInputs :
                handleUpdateTicketStatus(i, cred, id, status, notes, TRUE)
        \/ \E id \in TicketIds, notes \in NotesInputs :
                handleAddTicketNotes(i, cred, id, notes, TRUE)
        \/ \E id \in TicketIds, techID \in {Tech.B} :
                handleAdminUpdateTicketTechnician(i, cred, id, techID, TRUE)
        \/ \E role \in {RoleCustomer} :
                handleUpdateUser(i, cred, Tech.A, InitUsers[Tech.A].email, role, "", TRUE)
        \/ handleDeleteUser(i, cred, Tech.A, TRUE)
    \/ \E i \in Slots, ok \in BOOLEAN :
        \/ UpdateStatus_exec(i, ok)
        \/ UpdateStatus_history(i, ok)
        \/ AddTicketNotes_update(i, ok)
        \/ UpdateTicketTechnician_update(i, ok)
        \/ UpdateTicketTechnician_history(i, ok)
        \/ UpdateUser_update(i, ok)

SpecHistory == Init /\ [][NextHistory]_vars

\* SpecAds: visitors look up tickets and click on ads; the counting
\* goroutines run whenever the scheduler lets them, and their statement or
\* the visitor's request may fail.
AdIds == {1, 2, 3}
TrackingCodes == {1, 2}

NextAds ==
    \/ \E i \in Slots, id \in AdIds, ok \in BOOLEAN : handleAdClick(i, id, ok)
    \/ \E i \in Slots, code \in TrackingCodes, ok \in BOOLEAN :
          handleTrackingStatus(i, code, ok)
    \/ \E i \in Slots, ok \in BOOLEAN : TrackingStatus_render(i, ok)
    \/ \E k \in 1..MaxRequests, ok \in BOOLEAN : RunIncrement(k, ok)

SpecAds == Init /\ [][NextAds]_vars

\* SpecBoot: the process from main to the listening server, over the
\* config.json files and the environments below.
FileConfigs ==
    [debug : BOOLEAN, port : {0, 70000}, path : {"", "data/app.db", "../app.db"},
     secret : {"", Placeholder, "s3cret"}, expirationHours : {0}]

ConfigFiles == {NotExist, Unreadable, Unparsable} \cup {ConfigFile(c) : c \in FileConfigs}

Environments ==
    [DEBUG : {"", "true", "1", "false"}, PORT : {"", "9000", "abc"},
     DATABASE_PATH : {"", "/var/app.db"}, JWT_SECRET : {"", Placeholder, "0ther"}]

InitBoot ==
    /\ now = 0
    /\ InitDB(TicketStatusDiagnosing)
    /\ issued = OpeningLogins
    /\ inflight = [i \in Slots |-> Idle]
    /\ served = 0
    /\ last = NoLast
    /\ ads = InitAds
    /\ tasks = <<>>
    /\ ticket_parts = InitParts
    /\ surveys = <<>>
    /\ \E file \in ConfigFiles, env \in Environments : srv = Booting(file, env)

NextBoot ==
    \/ main_Load
    \/ main_Run
    \/ Signal

SpecBoot == InitBoot /\ [][NextBoot]_vars

\* SpecPassword: HashPassword and CheckPassword on passwords around the
\* 72 bytes, strings that are no hash, and both kinds of release.
RECURSIVE Rep(_)
Rep(n) == IF n = 0 THEN "" ELSE "a" \o Rep(n - 1)

PasswordInputs ==
    {"", "a", "b", "admin123", Rep(71), Rep(71) \o "b", Rep(72), Rep(72) \o "b",
     Rep(73)}

MalformedHashes == {<<>>, <<"$2a$">>, <<"$1$", "a">>, <<"a", "$2a$">>}

InitPassword ==
    /\ now = 0
    /\ InitDB(TicketStatusDiagnosing)
    /\ issued = OpeningLogins
    /\ inflight = [i \in Slots |-> Idle]
    /\ served = 0
    /\ ads = InitAds
    /\ tasks = <<>>
    /\ ticket_parts = InitParts
    /\ surveys = <<>>
    /\ srv = Serving
    /\ \E password \in PasswordInputs, malformed \in MalformedHashes, strict \in BOOLEAN :
          \E other \in PasswordInputs \ {password} :
            last = [NoLast EXCEPT !.step = "input",
                                  !.req = [password |-> password, other |-> other,
                                           malformed |-> malformed, strict |-> strict]]

NextPassword ==
    /\ \/ HashPassword_call
       \/ CheckPassword_call("same")
       \/ CheckPassword_call("other")
       \/ CheckPassword_malformed
    /\ UNCHANGED <<ticket_parts, surveys, ads, tasks, srv, now, users, bookings, tickets, history, issued,
                   inflight, served>>

SpecPassword == InitPassword /\ [][NextPassword]_vars

\* SpecCreate: tickets are created, from booking 2 and at the counter, by
\* technician A and the admin; a statement may fail.
DirectEmails == {<<"user", 4>>, <<"user", 0>>}

NextCreate ==
    \/ \E i \in Slots, cred \in SessionsOf({1, Tech.A}) :
        \/ \E id \in BookingIds : handleCreateTicket(i, cred, id, TRUE)
        \/ \E email \in DirectEmails, notes \in NotesInputs, ok \in BOOLEAN :
              handleCreateTicketDirect(i, cred, email, notes, ok)
    \/ \E i \in Slots, ok \in BOOLEAN :
        \/ Create_exec(i, ok)
        \/ Create_history(i, ok)
        \/ CreateTicket_booking(i, ok)
        \/ Direct_createUser(i, ok)
        \/ Direct_refetch(i, ok)
        \/ Direct_bicycle(i, ok)
        \/ Direct_booking(i, ok)
        \/ Direct_ticket(i, ok)
        \/ Direct_history(i, ok)

SpecCreate == Init /\ [][NextCreate]_vars

\* SpecParts: the two technicians at the checklists.  Ticket 1 is
\* technician A's and has part 1; there is no ticket 2 and no part 2.
PartTicketIds == {1, 2}
PartIds == {1, 2}
PartNames == {"", "brake"}

NextParts ==
    \/ \E i \in Slots, cred \in SessionsOf({Tech.A, Tech.B}), id \in PartTicketIds,
          ok \in BOOLEAN :
        \/ \E name \in PartNames : handleCreateTicketPart(i, cred, id, name, ok)
        \/ \E partID \in PartIds, hx \in BOOLEAN :
              handleToggleTicketPart(i, cred, id, partID, hx, ok)
        \/ \E partID \in PartIds : handleDeleteTicketPart(i, cred, id, partID, ok)
    \/ \E i \in Slots, ok \in BOOLEAN :
        \/ CreateTicketPart_insert(i, ok)
        \/ ToggleTicketPart_select(i, ok)
        \/ ToggleTicketPart_update(i, ok)
        \/ DeleteTicketPart_delete(i, ok)

SpecParts == Init /\ [][NextParts]_vars

\* SpecRun: Server.Run from ListenAndServe to its return.  A technician
\* sends notes updates while the listener is open; the handlers of the
\* requests in flight run as long as the process does.  The timer of the
\* grace period and Run's own goroutine are scheduled by the runtime,
\* hence the fairness; nothing makes a handler take its next step.
NextRun ==
    \/ ServerError
    \/ Signal
    \/ ShutdownTick
    \/ ShutdownDone
    \/ ShutdownTimeout
    \/ \E i \in Slots, cred \in SessionsOf({Tech.A}), id \in TicketIds,
          notes \in NotesInputs :
            /\ srv.listening
            /\ handleAddTicketNotes(i, cred, id, notes, TRUE)
    \/ \E i \in Slots :
            /\ srv.state \in {"serving", "shutdown"}
            /\ AddTicketNotes_update(i, TRUE)

SpecRun ==
    /\ Init
    /\ [][NextRun]_vars
    /\ WF_vars(ShutdownTick)
    /\ WF_vars(ShutdownDone)
    /\ WF_vars(ShutdownTimeout)

\* SpecUsers: the users table at work.  The admin, a technician and a
\* customer are logged in; the admin edits and deletes users, users edit
\* their profile, visitors register.
Roles == {RoleCustomer, RoleTechnician, RoleAdmin}
UserIds == {Tech.A, 4}
FormEmails(id) == {InitUsers[id].email, <<"user", 1>>, <<"user", 0>>}
FormPasswords == {""}

InitUsersSpec ==
    /\ now = 0
    /\ InitDB(TicketStatusDiagnosing)
    /\ issued = {[token |-> generateToken([id |-> u, email |-> InitUsers[u].email,
                                           role |-> InitUsers[u].role], 0),
                  id |-> u, email |-> InitUsers[u].email, role |-> InitUsers[u].role,
                  at |-> 0] : u \in {1, Tech.A, 4}}
    /\ Quiet

NextUsers ==
    \/ \E i \in Slots, cred \in SessionCreds :
        \/ \E id \in UserIds, role \in Roles, password \in FormPasswords :
              \E email \in FormEmails(id) :
                handleUpdateUser(i, cred, id, email, role, password, TRUE)
        \/ \E id \in UserIds : handleDeleteUser(i, cred, id, TRUE)
        \/ handleUpdateProfile(i, cred, TRUE)
    \/ \E i \in Slots, email \in {<<"user", 0>>, <<"user", 4>>},
          confirm \in {"pw", "bad"} :
            handleRegister(i, email, "pw", confirm, TRUE)
    \/ \E i \in Slots :
        \/ UpdateUser_email(i, TRUE)
        \/ UpdateUser_update(i, TRUE)
        \/ UpdateProfile_update(i, TRUE)
        \/ Register_create(i, TRUE)

SpecUsers == InitUsersSpec /\ [][NextUsers]_vars

\* SpecCredentials: the admin sets passwords, and logins follow.  Only the
\* admin is logged in at first.
NewPasswords == {"", "new"}

InitCredentials ==
    /\ now = 0
    /\ InitDB(TicketStatusDiagnosing)
    /\ issued = {e \in OpeningLogins : e.id = 1}
    /\ Quiet

NextCredentials ==
    \/ \E i \in Slots, cred \in SessionCreds, id \in UserIds, role \in Roles,
          password \in NewPasswords :
            handleUpdateUser(i, cred, id, InitUsers[id].email, role, password, TRUE)
    \/ \E i \in Slots, ok \in BOOLEAN : UpdateUser_update(i, ok)
    \/ \E id \in UserIds, password \in {"pw", "new"} :
            handleLogin(InitUsers[id].email, password)

SpecCredentials == InitCredentials /\ [][NextCredentials]_vars

\* SpecSurvey: customers answer the survey of a ticket, from the tracking
\* page and from their account.  Ticket 1 is being diagnosed or ready; the
\* customer is logged in.
SurveyTicketIds == {1, 2}
Ratings == {0, 5}

InitSurvey ==
    /\ now = 0
    /\ \E s \in {TicketStatusDiagnosing, TicketStatusReady} : InitDB(s)
    /\ issued = {[token |-> generateToken([id |-> 4, email |-> InitUsers[4].email,
                                           role |-> InitUsers[4].role], 0),
                  id |-> 4, email |-> InitUsers[4].email, role |-> InitUsers[4].role,
                  at |-> 0]}
    /\ Quiet

NextSurvey ==
    \/ \E i \in Slots, code \in SurveyTicketIds, rating \in Ratings, ok \in BOOLEAN :
          handlePublicSubmitSurvey(i, code, rating, ok)
    \/ \E i \in Slots, ok \in BOOLEAN :
        \/ PublicSubmitSurvey_existing(i, ok)
        \/ PublicSubmitSurvey_create(i, ok)
        \/ SurveyPage_existing(i, ok)
    \/ \E i \in Slots, cred \in SessionCreds, ticketID \in SurveyTicketIds,
          ok \in BOOLEAN :
        \/ handleSurveyPage(i, cred, ticketID, ok)
        \/ \E rating \in Ratings : handleSubmitSurvey(i, cred, ticketID, rating, ok)

SpecSurvey == InitSurvey /\ [][NextSurvey]_vars

\* SpecLookup: requests for tickets and bookings by id, some of which do
\* not exist (there is no ticket 2 and no booking 3), and queries that fail.
LookupTicketIds == {1, 2}
LookupBookingIds == {2, 3}

NextLookup ==
    \/ \E i \in Slots, cred \in SessionsOf({Tech.A}), ok \in BOOLEAN :
        \/ \E id \in LookupTicketIds :
            \/ handleTicketLabel(i, cred, id, ok)
            \/ handleTicketQuote(i, cred, id, ok)
            \/ handleUpdateTicketStatus(i, cred, id, TicketStatusReady, "", ok)
            \/ handleAddTicketNotes(i, cred, id, "n", ok)
        \/ \E id \in LookupBookingIds :
            \/ handleCreateBicycleFromBooking(i, cred, id, ok)
            \/ handleCreateTicket(i, cred, id, ok)
    \/ \E i \in Slots, ok \in BOOLEAN :
        \/ TicketLabel_render(i, ok)
        \/ TicketQuote_render(i, ok)
        \/ CreateBicycle_create(i, ok)
        \/ CreateBicycle_link(i, ok)
        \/ UpdateStatus_exec(i, ok)
        \/ UpdateStatus_history(i, ok)
        \/ AddTicketNotes_update(i, ok)
        \/ Create_exec(i, ok)
        \/ Create_history(i, ok)
        \/ CreateTicket_booking(i, ok)

SpecLookup == Init /\ [][NextLookup]_vars

\* SpecBooking: booking 2 at the counter.  The two technicians turn it
\* into a ticket, and it is cancelled, in any order.
NextBooking ==
    \/ \E i \in Slots, cred \in SessionsOf({Tech.A, Tech.B}), id \in BookingIds :
        \/ handleCreateTicket(i, cred, id, TRUE)
        \/ handleCancelBooking(i, cred, id, TRUE)
    \/ \E i \in Slots, ok \in BOOLEAN :
        \/ Create_exec(i, ok)
        \/ Create_history(i, ok)
        \/ CreateTicket_booking(i, ok)
        \/ CancelBooking_update(i, ok)

SpecBooking == Init /\ [][NextBooking]_vars

\* SpecAdvance: technician A alone.  A creates tickets, from booking 2 and
\* at the counter, and then moves tickets on; every statement is executed.
AdvanceTicketIds == {1, 2, 3}

NextAdvance ==
    \/ \E i \in Slots, cred \in SessionsOf({Tech.A}) :
        \/ \E id \in BookingIds : handleCreateTicket(i, cred, id, TRUE)
        \/ handleCreateTicketDirect(i, cred, <<"user", 4>>, "n", TRUE)
        \/ \E id \in AdvanceTicketIds, status \in TicketStatuses :
              handleUpdateTicketStatus(i, cred, id, status, "", TRUE)
    \/ \E i \in Slots :
        \/ Create_exec(i, TRUE)
        \/ Create_history(i, TRUE)
        \/ CreateTicket_booking(i, TRUE)
        \/ Direct_bicycle(i, TRUE)
        \/ Direct_booking(i, TRUE)
        \/ Direct_ticket(i, TRUE)
        \/ Direct_history(i, TRUE)
        \/ UpdateStatus_exec(i, TRUE)
        \/ UpdateStatus_history(i, TRUE)

SpecAdvance == Init /\ [][NextAdvance]_vars

\* SpecSession: sessions that outlive what they were made of.  The admin
\* changes the role of a user or deletes the user, time passes, and the
\* sessions opened before go on asking for pages and status updates.
NextSession ==
    \/ Tick
    \/ Pages(SessionCreds)
    \/ \E i \in Slots, cred \in SessionsOf({1}), id \in UserIds :
        \/ \E role \in Roles :
              handleUpdateUser(i, cred, id, InitUsers[id].email, role, "", TRUE)
        \/ handleDeleteUser(i, cred, id, TRUE)
    \/ \E i \in Slots, cred \in SessionsOf({Tech.A}), id \in TicketIds,
          status \in {TicketStatusReceived, TicketStatusReady} :
            handleUpdateTicketStatus(i, cred, id, status, "", TRUE)
    \/ \E i \in Slots :
        \/ UpdateUser_update(i, TRUE)
        \/ UpdateStatus_exec(i, TRUE)
        \/ UpdateStatus_history(i, TRUE)

SpecSession == InitUsersSpec /\ [][NextSession]_vars

----------------------------------------------------------------------------
(* Properties of the ticket status handler *)

\* The technician's transition table as the specification gives it
TransitionTable ==
    { <<TicketStatusReceived, TicketStatusDiagnosing>>,
      <<TicketStatusDiagnosing, TicketStatusInProgress>>,
      <<TicketStatusDiagnosing, TicketStatusWaitingParts>>,
      <<TicketStatusDiagnosing, TicketStatusReady>>,
      <<TicketStatusInProgress, TicketStatusWaitingParts>>,
      <<TicketStatusInProgress, TicketStatusReady>>,
      <<TicketStatusWaitingParts, TicketStatusInProgress>>,
      <<TicketStatusWaitingParts, TicketStatusReady>>,
      <<TicketStatusReady, TicketStatusDelivered>> }

InvalidTransition(id) == Redirect(TicketPath(id), "error=invalid_transition")
StatusUpdated(id) == Redirect(TicketPath(id), "")

\* The step just taken is the arrival of a status update for an existing ticket
StatusUpdateArrives ==
    /\ last'.step = "handleUpdateTicketStatus"
    /\ last'.req.id \in 1..Len(tickets)

\* C1: a technician asking to move a ticket assigned to them from its
\* stored status s to t is let through exactly when (s, t) is in the
\* transition table or s = t, and the request then stores t and is answered
\* with the redirect to the ticket; otherwise the answer is
\* invalid_transition, the request ends, and tickets and history are as
\* they were.
C1_TechnicianTransitions ==
    [][ LET e == last'
            id == e.req.id
            t == e.req.status
        IN  /\ ( /\ StatusUpdateArrives
                 /\ e.claims.Role = RoleTechnician
                 /\ tickets[id].technician_id = e.claims.UserID )
               => IF <<tickets[id].status, t>> \in TransitionTable \/ tickets[id].status = t
                  THEN /\ e.resp = NoResp
                       /\ inflight'[e.slot].pc = "UpdateStatus"
                  ELSE /\ e.resp = InvalidTransition(id)
                       /\ inflight'[e.slot] = Idle
                       /\ tickets' = tickets
                       /\ history' = history
            /\ (e.step = "UpdateStatus_exec" /\ e.claims.Role = RoleTechnician)
               => /\ <<e.ticket.Status, t>> \in TransitionTable \/ e.ticket.Status = t
                  /\ e.ticket.TechnicianID = e.claims.UserID
                  /\ tickets'[id].status = t
            /\ (e.step = "UpdateStatus_history" /\ e.claims.Role = RoleTechnician)
               => e.resp = StatusUpdated(id)
      ]_vars

\* A technician has moved their ticket from diagnosing to ready
C1_Witness ==
    /\ last.step = "UpdateStatus_history"
    /\ last.claims.Role = RoleTechnician
    /\ last.claims.UserID = tickets[last.req.id].technician_id
    /\ last.ticket.Status = TicketStatusDiagnosing
    /\ last.req.status = TicketStatusReady
    /\ tickets[last.req.id].status = TicketStatusReady
    /\ last.resp = StatusUpdated(last.req.id)

\* C2: an administrator's status update of an existing ticket is never
\* held to the transition table or to the assignment: it goes on to the
\* UPDATE, stores the requested status, backward moves included, and is
\* answered with the redirect to the ticket.
C2_AdminOverride ==
    [][ LET e == last'
            id == e.req.id
        IN  /\ (StatusUpdateArrives /\ e.claims.Role = RoleAdmin)
               => /\ e.resp = NoResp
                  /\ inflight'[e.slot].pc = "UpdateStatus"
            /\ (e.step = "UpdateStatus_exec" /\ e.claims.Role = RoleAdmin)
               => tickets'[id].status = e.req.status
            /\ (e.step = "UpdateStatus_history" /\ e.claims.Role = RoleAdmin)
               => e.resp = StatusUpdated(id)
      ]_vars

\* An administrator has moved a ticket of a technician back from delivered
\* to received
C2_Witness ==
    /\ last.step = "UpdateStatus_history"
    /\ last.claims.Role = RoleAdmin
    /\ last.ticket.Status = TicketStatusDelivered
    /\ last.ticket.TechnicianID # last.claims.UserID
    /\ last.req.status = TicketStatusReceived
    /\ tickets[last.req.id].status = TicketStatusReceived
    /\ last.resp = StatusUpdated(last.req.id)

\* C3: a technician's status or notes update of a ticket assigned to
\* somebody else is answered 403 Forbidden, not with the invalid_transition
\* redirect, and the request ends there: tickets (status, notes) and history
\* are as they were.
C3_NotAssigned ==
    [][ LET e == last'
            id == e.req.id
        IN  ( /\ e.step \in {"handleUpdateTicketStatus", "handleAddTicketNotes"}
              /\ id \in 1..Len(tickets)
              /\ e.claims.Role = RoleTechnician
              /\ tickets[id].technician_id # e.claims.UserID )
            => /\ e.resp.code = 403
               /\ e.resp # InvalidTransition(id)
               /\ inflight'[e.slot] = Idle
               /\ tickets' = tickets
               /\ history' = history
      ]_vars

\* The other technician asked for a move the table does not have, on a
\* ticket that is not theirs, and was answered 403
C3_Witness ==
    /\ last.step = "handleUpdateTicketStatus"
    /\ last.claims.Role = RoleTechnician
    /\ last.req.id \in 1..Len(tickets)
    /\ tickets[last.req.id].technician_id # last.claims.UserID
    /\ <<tickets[last.req.id].status, last.req.status>> \notin TransitionTable
    /\ tickets[last.req.id].status # last.req.status
    /\ last.resp.code = 403

----------------------------------------------------------------------------
(* Properties of the status history *)

\* The step appends one row to history, for ticket id, with the status and
\* the author given
AppendsRow(id, status, author) ==
    /\ Len(history') = Len(history) + 1
    /\ SubSeq(history', 1, Len(history)) = history
    /\ history'[Len(history')].ticket_id = id
    /\ history'[Len(history')].status = status
    /\ history'[Len(history')].changed_by = NullInt64(author)

\* C4 as stated: a status update answered with the success redirect has
\* appended exactly one history row, with the status it stored and the
\* acting user as author, and no other row.
C4_ExactlyOneRow ==
    [][ LET e == last'
        IN  /\ (e.step = "UpdateStatus_history" /\ e.resp = StatusUpdated(e.req.id))
               => AppendsRow(e.req.id, e.req.status, e.claims.UserID)
            /\ e.step \in {"handleUpdateTicketStatus", "UpdateStatus_exec"}
               => history' = history
      ]_vars

\* C4, amended: a status update answered with the success redirect has
\* stored the requested status and appended exactly one history row, with
\* that status and the acting user as author, and no other row -- unless
\* the INSERT of the history row itself failed, in which case the answer is
\* the same and history has no new row.
C4_OneRowUnlessInsertFails ==
    [][ LET e == last'
        IN  /\ (e.step = "UpdateStatus_history" /\ e.resp = StatusUpdated(e.req.id))
               => IF e.ok
                  THEN AppendsRow(e.req.id, e.req.status, e.claims.UserID)
                  ELSE history' = history
            /\ e.step = "UpdateStatus_exec" /\ e.ok
               => tickets'[e.req.id].status = e.req.status
            /\ e.step \in {"handleUpdateTicketStatus", "UpdateStatus_exec"}
               => history' = history
      ]_vars

\* A status update has been answered with the success redirect and its row
\* is the last of the history
C4_Witness ==
    /\ last.step = "UpdateStatus_history"
    /\ last.ok
    /\ last.resp = StatusUpdated(last.req.id)
    /\ last.ticket.Status # last.req.status
    /\ history[Len(history)].ticket_id = last.req.id
    /\ history[Len(history)].status = last.req.status
    /\ history[Len(history)].changed_by = NullInt64(last.claims.UserID)

\* C5 as stated: with technicians alone updating statuses, every change
\* of a ticket's stored status is an edge of the transition table.
C5_OnlyTableEdges ==
    [][ \A id \in 1..Len(tickets) :
            tickets'[id].status # tickets[id].status
            => <<tickets[id].status, tickets'[id].status>> \in TransitionTable
      ]_vars

----------------------------------------------------------------------------
(* Properties of the gates *)

\* The handlers behind a role gate, and the roles the specification lists
\* for each
TechnicianRoutes == {"handleWorkshopDashboard", "handleUpdateTicketStatus",
                     "handleAddTicketNotes", "handleCreateTicket"}
AdminRoutes == {"handleAdminDashboard", "handleAdminUpdateTicketTechnician"}
CustomerRoutes == {"handleDashboard", "handleCancelBooking"}

AllowedRoles(handler) ==
    IF handler \in TechnicianRoutes THEN {RoleTechnician, RoleAdmin} ELSE {RoleAdmin}

\* The token a request presents: the cookie, or else the bearer token
PresentedToken(cred) ==
    IF cred.cookie # NoCookie THEN cred.cookie
    ELSE IF Len(cred.header) = 2 /\ cred.header[1] = "Bearer" THEN cred.header[2]
    ELSE Garbage

\* Signed by the server and not yet expired at t
ValidToken(token, t) == token.key = Secret /\ t < token.claims.ExpiresAt

LoginPage(resp) == resp.code = 303 /\ resp.location = <<"/login">>

----------------------------------------------------------------------------
(* Properties of the requests that write more than once *)

\* C9 as stated: when the creation of a ticket from a booking has been
\* answered with the redirect to the new ticket, the booking is confirmed
\* and a ticket in status received refers to it.
C9_BookingConfirmed ==
    (last.step = "CreateTicket_booking" /\ last.resp = Redirect(TicketPath(last.ticket.ID), ""))
    => /\ bookings[last.req.id].status = BookingStatusConfirmed
       /\ \E t \in 1..Len(tickets) :
              /\ tickets[t].booking_id = last.req.id
              /\ tickets[t].status = TicketStatusReceived

\* C10 as stated: the write of a notes update leaves the stored status and
\* technician of the ticket as they are, and the write of a reassignment
\* leaves the stored status as it is, whatever was committed since the
\* request read the ticket.
C10_NoLostUpdate ==
    [][ LET e == last'
            id == e.req.id
        IN  /\ e.step = "AddTicketNotes_update"
               => /\ tickets'[id].status = tickets[id].status
                  /\ tickets'[id].technician_id = tickets[id].technician_id
            /\ e.step = "UpdateTicketTechnician_update"
               => tickets'[id].status = tickets[id].status
      ]_vars

----------------------------------------------------------------------------
(* Properties of the users table and of the sessions *)

\* C11: a token presented before its own expiry is accepted and the
\* request runs with the role the token was issued with, whatever the
\* user's row says now and whether or not it still exists: the role gate
\* lets it through exactly when that role is allowed, and the status
\* handler holds it to the technician's rules exactly when that role is
\* technician.
C11_RoleOfIssuance ==
    \A e \in issued :
        ( /\ last.step \in CustomerRoutes \cup TechnicianRoutes \cup AdminRoutes
          /\ last.stages # <<>>
          /\ PresentedToken(last.cred) = e.token
          /\ last.at < e.token.claims.ExpiresAt )
        => /\ Len(last.stages) >= 2
           /\ last.stages[1] = "auth"
           /\ last.claims.Role = e.role
           /\ last.step \in TechnicianRoutes \cup AdminRoutes
              => ( last.stages = <<"auth", "role", "handler">>
                   <=> (e.role \in AllowedRoles(last.step) \/ e.role = RoleAdmin) )
           /\ ( /\ last.step = "handleUpdateTicketStatus"
                /\ e.role = RoleTechnician
                /\ last.req.id \in 1..Len(tickets) )
              => LET id == last.req.id
                     s == tickets[id].status
                 IN  IF tickets[id].technician_id # e.id
                     THEN last.resp.code = 403
                     ELSE IF <<s, last.req.status>> \in TransitionTable \/ s = last.req.status
                     THEN last.resp = NoResp
                     ELSE last.resp = InvalidTransition(id)

\* The technician was made an admin, or deleted, and their earlier session
\* is still held to the technician's transition table
C11_Witness ==
    \E e \in issued :
        /\ last.step = "handleUpdateTicketStatus"
        /\ PresentedToken(last.cred) = e.token
        /\ e.role = RoleTechnician
        /\ users[e.id].role # RoleTechnician
        /\ e.at < last.at
        /\ last.at < e.token.claims.ExpiresAt
        /\ last.claims.Role = RoleTechnician
        /\ last.resp = InvalidTransition(last.req.id)

\* C12 as stated: the stored role of a user changes only in the write of
\* an admin's user update; no other step, and none of the user's own
\* requests (profile update, registration), changes the role of an existing
\* row, and a registration stores the role customer.
C12_RoleChangesOnlyByAdmin ==
    [][ /\ \A id \in DOMAIN users :
              ( /\ users[id] # NoUser
                /\ users'[id] # NoUser
                /\ users'[id].role # users[id].role )
              => /\ last'.step = "UpdateUser_update"
                 /\ last'.claims.Role = RoleAdmin
        /\ last'.step = "Register_create" /\ Len(users') > Len(users)
           => users'[Len(users')].role = RoleCustomer
      ]_vars

----------------------------------------------------------------------------
(* Properties of the failures of the authentication *)

\* A request for a protected route was answered by the authentication
\* gate for want of a valid token
AuthFailure ==
    /\ last.step \in CustomerRoutes \cup TechnicianRoutes \cup AdminRoutes
    /\ last.stages # <<>>
    /\ ~ValidToken(PresentedToken(last.cred), last.at)

\* The request carries a token: a cookie, or else a well-formed bearer header
TokenPresented(cred) ==
    \/ cred.cookie # NoCookie
    \/ Len(cred.header) = 2 /\ cred.header[1] = "Bearer"

\* C13 as stated: every authentication failure on a protected route is
\* answered with the redirect to the login page together with the clearing
\* of the auth cookie, and the handler is not run.
C13_RedirectAndClear ==
    AuthFailure
    => /\ LoginPage(last.resp)
       /\ last.resp.clearCookie
       /\ last.stages = <<"auth">>

\* C13, amended: every authentication failure on a protected route is
\* answered with the redirect to the login page and the handler is not run;
\* the auth cookie is cleared exactly when a token was presented and failed
\* validation (bad signature, expired, not a token), and not when the
\* request carries no token at all or a malformed Authorization header.
C13_RedirectClearIfPresented ==
    AuthFailure
    => /\ LoginPage(last.resp)
       /\ last.stages = <<"auth">>
       /\ last.resp.clearCookie <=> TokenPresented(last.cred)

\* An expired session cookie was answered with the redirect and the
\* clearing of the cookie
C13_Witness ==
    /\ AuthFailure
    /\ last.cred.cookie \in Held
    /\ last.at >= last.cred.cookie.claims.ExpiresAt
    /\ LoginPage(last.resp)
    /\ last.resp.clearCookie

----------------------------------------------------------------------------
(* Properties of the stored statuses *)

\* C14 as stated: every ticket's stored status is one of the six values
\* received, diagnosing, in_progress, waiting_parts, ready, delivered.
C14_ClosedEnumeration ==
    \A id \in 1..Len(tickets) :
        tickets[id].status \in {"received", "diagnosing", "in_progress",
                                "waiting_parts", "ready", "delivered"}

----------------------------------------------------------------------------
(* Properties of the status history as a log *)

\* C15: no step removes or rewrites a row of the status history: the
\* history before the step is a prefix of the history after it, row by row
\* with the same ticket id, status, changed-by and notes.
C15_AppendOnly ==
    [][ /\ Len(history') >= Len(history)
        /\ \A k \in 1..Len(history) :
              /\ history'[k].ticket_id = history[k].ticket_id
              /\ history'[k].status = history[k].status
              /\ history'[k].changed_by = history[k].changed_by
              /\ history'[k].notes = history[k].notes
      ]_vars

\* The technician who wrote rows of the history was deleted; the rows are
\* there with the technician's id, and more rows have been appended
C15_Witness ==
    /\ users[Tech.A] = NoUser
    /\ Len(history) > Len(InitHistory(TicketStatusDiagnosing))
    /\ \A k \in 1..Len(InitHistory(TicketStatusDiagnosing)) :
          history[k] = InitHistory(TicketStatusDiagnosing)[k]
    /\ \E k \in 1..Len(history) : history[k].changed_by = NullInt64(Tech.A)

----------------------------------------------------------------------------
(* Properties of the counting of impressions and clicks *)

\* C16: the increment of an ad's counter is started as a task of its own
\* and has not run when the handler goes on: the click is answered in the
\* very step that starts the task; the tracking page is rendered the same
\* whether the task has run, failed or not run yet; the end of the parent
\* request, answered or cancelled, leaves the task in place; and the task
\* answers nobody and touches no request, whether its UPDATE succeeds or
\* fails.
C16_DetachedIncrement ==
    [][ LET e == last'
        IN  /\ (e.step = "handleAdClick" /\ e.resp.code \in {302, 303})
               => /\ tasks' = Append(tasks, [kind |-> "IncrementClicks", id |-> e.req.id])
                  /\ ads' = ads
                  /\ inflight'[e.slot] = Idle
            /\ (e.step = "handleTrackingStatus" /\ e.resp = NoResp)
               => /\ ads' = ads
                  /\ \/ tasks' = tasks
                     \/ \E id \in 1..Len(ads) :
                          /\ ads[id].active
                          /\ tasks' = Append(tasks, [kind |-> "IncrementImpressions",
                                                     id |-> id])
            /\ e.step = "TrackingStatus_render"
               => /\ tasks' = tasks
                  /\ ads' = ads
                  /\ e.ok => e.resp = Page("pages/public/tracking_result.html", "")
            /\ e.step \in {"IncrementImpressions", "IncrementClicks"}
               => /\ inflight' = inflight
                  /\ e.resp = NoResp
                  /\ Len(tasks') = Len(tasks) - 1
                  /\ ~e.ok => ads' = ads
      ]_vars

\* A tracking request was cancelled before its page was rendered, and the
\* impression it started is still waiting to be counted
C16_Witness ==
    /\ last.step = "TrackingStatus_render"
    /\ ~last.ok
    /\ last.resp = NoResp
    /\ \A i \in Slots : inflight[i] = Idle
    /\ \E k \in 1..Len(tasks) : tasks[k].kind = "IncrementImpressions"
    /\ \A id \in 1..Len(ads) : ads[id].impressions = 0

----------------------------------------------------------------------------
(* Properties of the shutdown *)

\* C17: once the signal has arrived the listener is closed and no request
\* is accepted any more; the requests in flight may go on for the grace
\* period of 30 seconds and no longer; Run returns without force when none
\* is left in flight, and by closing the connections when the 30 seconds
\* are over and some are; and after the signal Run always eventually
\* returns.
C17_GracefulShutdown ==
    /\ [](srv.state \in {"shutdown", "returned"}
          => /\ ~srv.listening
             /\ srv.elapsed <= 30)
    /\ [][ /\ srv.state \in {"shutdown", "returned"} => served' = served
           /\ (srv.state = "shutdown" /\ srv'.state = "returned")
              => IF \A i \in Slots : inflight[i].pc = "idle"
                 THEN ~srv'.forced
                 ELSE srv'.forced /\ srv.elapsed = 30
           /\ srv.state = "returned" => UNCHANGED <<srv, inflight, tickets>>
       ]_vars
    /\ (srv.state = "shutdown") ~> (srv.state = "returned")

\* The grace period ran out with a request still in flight, and Run
\* returned by force
C17_Witness ==
    /\ srv.state = "returned"
    /\ srv.forced
    /\ srv.elapsed = GracePeriod
    /\ \E i \in Slots : inflight[i].pc # "idle"
    /\ served > 0

----------------------------------------------------------------------------
(* Properties of the configuration *)

\* C18: with debug mode off and the signing secret empty or equal to the
\* placeholder, config.Load fails and the process ends before the server
\* starts; with debug mode on, or with any other secret, Load does not fail
\* with the secret's error.
C18_SecretValidated ==
    /\ [](srv.state \in {"loaded", "fatal"} /\ srv.file.kind \in {"json", "not exist"}
          => LET c == Loaded(srv.file, srv.env)
             IN  IF ~c.debug /\ c.secret \in {"", "CHANGE_THIS_SECRET_IN_PRODUCTION"}
                 THEN srv.state = "fatal" /\ srv.cfg = Nil
                 ELSE srv.err # SecretError)
    /\ [][srv.state = "fatal" => srv'.state = "fatal"]_vars

\* Load has refused the placeholder outside debug mode, every other
\* setting being valid
C18_Witness ==
    /\ srv.state = "fatal"
    /\ srv.err = SecretError
    /\ srv.file.kind = "json"
    /\ ~Loaded(srv.file, srv.env).debug
    /\ Loaded(srv.file, srv.env).secret = Placeholder

----------------------------------------------------------------------------
(* Properties of the password hash *)

\* C19: every password p has a hash; CheckPassword accepts p against the
\* hash of p, refuses every other password against it, and refuses every
\* password against a string that is no hash.
C19_HashVerify ==
    /\ last.step = "HashPassword" => last.resp.err = ""
    /\ last.step = "CheckPassword"
       => IF ~last.resp.ishash
          THEN last.resp.ok = FALSE
          ELSE last.resp.ok = (last.resp.tried = last.resp.of)

----------------------------------------------------------------------------
(* Properties of the partial failure *)

\* C20: when the UPDATE of a status update has been executed and the INSERT
\* of the history row fails, the request is answered with the success
\* redirect as after a successful INSERT, the tickets table is left as the
\* UPDATE wrote it, and nothing else is written; the history is the one
\* thing that differs: it has no new row.
C20_PartialFailure ==
    [][ LET e == last'
        IN  e.step = "UpdateStatus_history"
            => /\ e.resp = StatusUpdated(e.req.id)
               /\ inflight'[e.slot] = Idle
               /\ UNCHANGED <<tickets, users, bookings, issued, ads, tasks, srv>>
               /\ ~e.ok => history' = history
               /\ e.ok => Len(history') = Len(history) + 1
      ]_vars

\* The INSERT has failed after the UPDATE: the ticket has the new status,
\* the history has no row for it, the answer is the success redirect
C20_Witness ==
    /\ last.step = "UpdateStatus_history"
    /\ ~last.ok
    /\ last.resp = StatusUpdated(last.req.id)
    /\ last.ticket.Status # last.req.status
    /\ tickets[last.req.id].status = last.req.status
    /\ \A k \in 1..Len(history) :
          ~(history[k].ticket_id = last.req.id /\ history[k].status = last.req.status)

----------------------------------------------------------------------------
(* Properties of the failed update *)

\* C21: when the UPDATE of the ticket row fails during a status update, the
\* request is answered with the redirect carrying error=update_failed,
\* which is neither the invalid_transition redirect nor the success
\* redirect; the request ends there, so no history row is appended, and
\* the stored status of the ticket is the one it had.
C21_UpdateFailed ==
    [][ LET e == last'
        IN  (e.step = "UpdateStatus_exec" /\ ~e.ok)
            => /\ e.resp = Redirect(TicketPath(e.req.id), "error=update_failed")
               /\ e.resp # InvalidTransition(e.req.id)
               /\ e.resp # StatusUpdated(e.req.id)
               /\ inflight'[e.slot] = Idle
               /\ history' = history
               /\ tickets' = tickets
      ]_vars

\* The UPDATE to a new status has failed: the ticket has the status it had
C21_Witness ==
    /\ last.step = "UpdateStatus_exec"
    /\ ~last.ok
    /\ last.resp = Redirect(TicketPath(last.req.id), "error=update_failed")
    /\ tickets[last.req.id].status # last.req.status
    /\ history = InitHistory(TicketStatusDiagnosing)

----------------------------------------------------------------------------
(* Properties of the ticket creation *)

\* The rows of the history that belong to ticket id
RowsOf(h, id) == {k \in 1..Len(h) : h[k].ticket_id = id}

\* The step just taken answers a ticket creation with the redirect to the
\* new ticket
CreationAnswered(e) ==
    /\ e.step \in {"CreateTicket_booking", "Direct_history"}
    /\ e.resp = Redirect(TicketPath(e.ticket.ID), "")

\* The author of the initial row: the creator on the way from a booking,
\* nobody at the counter
InitialAuthor(e) ==
    IF e.req.handler = "handleCreateTicket" THEN NullInt64(e.claims.UserID) ELSE NULL

\* C22 as stated: a ticket creation answered with the redirect to the new
\* ticket has left exactly one history row for that ticket, with status
\* received and notes "created", whose author is the creating technician on
\* the way from a booking and null on the walk-in way.
C22_OneInitialRow ==
    [][ LET e == last'
        IN  CreationAnswered(e)
            => /\ Cardinality(RowsOf(history', e.ticket.ID)) = 1
               /\ \A k \in RowsOf(history', e.ticket.ID) :
                     /\ history'[k].status = TicketStatusReceived
                     /\ history'[k].notes = "created"
                     /\ history'[k].changed_by = InitialAuthor(e)
      ]_vars

\* C22, amended: the INSERT of the initial row, when it is executed,
\* appends one row for the new ticket with status received, notes "Ticket
\* creado" and the author as stated, and no other step of a creation
\* writes the history; when that INSERT fails the creation is answered with
\* the same redirect and the ticket has no row.  So an answered creation
\* has left at most one row for its ticket, and that row is as described.
C22_InitialRowUnlessInsertFails ==
    [][ LET e == last'
        IN  /\ e.step \in {"Create_history", "Direct_history"}
               => IF e.ok
                  THEN history' = Append(history,
                                      [ticket_id |-> e.ticket.ID,
                                       status |-> TicketStatusReceived,
                                       changed_by |-> InitialAuthor(e),
                                       notes |-> "Ticket creado"])
                  ELSE history' = history
            /\ e.step \notin {"Create_history", "Direct_history"} => history' = history
            /\ CreationAnswered(e)
               => /\ Cardinality(RowsOf(history', e.ticket.ID)) <= 1
                  /\ tickets'[e.ticket.ID].status = TicketStatusReceived
                  /\ \A k \in RowsOf(history', e.ticket.ID) :
                        /\ history'[k].status = TicketStatusReceived
                        /\ history'[k].notes = "Ticket creado"
                        /\ history'[k].changed_by = InitialAuthor(e)
      ]_vars

\* A walk-in ticket has been created by technician A, and its one row
\* has no author
C22_Witness ==
    /\ last.step = "Direct_history"
    /\ last.ok
    /\ last.claims.UserID = Tech.A
    /\ last.resp = Redirect(TicketPath(last.ticket.ID), "")
    /\ Cardinality(RowsOf(history, last.ticket.ID)) = 1
    /\ history[Len(history)] = [ticket_id |-> last.ticket.ID,
                                status |-> TicketStatusReceived,
                                changed_by |-> NULL, notes |-> "Ticket creado"]

----------------------------------------------------------------------------
(* Properties of the reassignment *)

\* C23: a reassignment by an admin that is answered with the redirect has
\* changed nothing of the ticket but its technician_id: the UPDATE leaves
\* the stored status and the stored notes as they were, and exactly one
\* history row is appended, with the status the ticket has and the admin
\* as its author.
C23_OnlyTechnician ==
    [][ LET e == last'
            id == e.req.id
        IN  /\ (e.step = "UpdateTicketTechnician_update" /\ e.ok)
               => /\ tickets'[id].status = tickets[id].status
                  /\ tickets'[id].notes = tickets[id].notes
                  /\ tickets'[id].technician_id = e.req.technician_id
                  /\ history' = history
            /\ (e.step = "UpdateTicketTechnician_history"
                /\ e.resp = Redirect(<<"/admin/tickets">>, ""))
               => /\ tickets' = tickets
                  /\ history' = Append(history,
                                   [ticket_id |-> id, status |-> tickets[id].status,
                                    changed_by |-> NullInt64(e.claims.UserID),
                                    notes |-> "Tecnico reasignado por administrador"])
      ]_vars

----------------------------------------------------------------------------
(* Properties of the history as a record of the status *)

\* The last row appended to the history for ticket id
LastRowOf(id) == CHOOSE k \in RowsOf(history, id) : \A j \in RowsOf(history, id) : j <= k

\* C24: with the store executing every statement, whenever no request is
\* in progress the stored status of each ticket is the status of the last
\* row appended to the history for that ticket.
C24_StatusIsLastRow ==
    (\A i \in Slots : inflight[i].pc = "idle")
    => \A id \in 1..Len(tickets) :
          /\ RowsOf(history, id) # {}
          /\ history[LastRowOf(id)].status = tickets[id].status

----------------------------------------------------------------------------
(* Properties of the checklist *)

PartHandlers == {"handleCreateTicketPart", "handleToggleTicketPart",
                 "handleDeleteTicketPart"}

\* The parts of ticket t in the table p, each with its status
PartsOf(p, t) == {<<k, p[k].status>> : k \in {j \in 1..Len(p) : p[j].ticket_id = t}}

\* C25: no step of a checklist request by a technician changes the set or
\* the status of the parts of a ticket that is assigned to somebody else,
\* whatever ticket id and part id the request carries.
C25_OwnChecklistOnly ==
    [][ LET e == last'
        IN  (e.req.handler \in PartHandlers /\ e.claims.Role = RoleTechnician)
            => \A t \in 1..Len(tickets) :
                  tickets[t].technician_id # e.claims.UserID
                  => PartsOf(ticket_parts', t) = PartsOf(ticket_parts, t)
      ]_vars

----------------------------------------------------------------------------
(* Properties of the password set by the admin *)

\* The step just taken answers a user update that carried a new password
\* with the redirect to the list of users
PasswordUpdated(e) ==
    /\ e.step = "UpdateUser_update"
    /\ e.resp = Redirect(<<"/admin/users">>, "")
    /\ e.req.password # ""

\* C26: after a user update with a new password has been answered as a
\* success, the stored credential of the user verifies the new password
\* and not the old one, and the login that follows succeeds with the new
\* password and fails with any other.
C26_NewPasswordStored ==
    /\ [](PasswordUpdated(last)
          => /\ users[last.req.id].password_hash = hashPassword(last.req.password)
             /\ checkPasswordHash(last.req.password, users[last.req.id].password_hash)
             /\ ~checkPasswordHash("pw", users[last.req.id].password_hash))
    /\ [][ ( /\ PasswordUpdated(last)
             /\ last'.step = "handleLogin"
             /\ last'.req.email = users[last.req.id].email )
           => (last'.resp.setCookie # Nil <=> last'.req.password = last.req.password)
       ]_vars

----------------------------------------------------------------------------
(* Properties of the surveys *)

SurveysOf(sv, id) == {k \in 1..Len(sv) : sv[k].ticket_id = id}

\* C27: whatever the interleaving of the submissions through the tracking
\* page and through the account, no ticket has more than one survey, and
\* a survey is stored only for a ticket that is ready or delivered when
\* the survey is submitted.
C27_OneSurveyWhenDone ==
    /\ [](\A k \in 1..Len(surveys) : Cardinality(SurveysOf(surveys, surveys[k].ticket_id)) <= 1)
    /\ [][ surveys' # surveys
           => LET id == surveys'[Len(surveys')].ticket_id
              IN  /\ id \in 1..Len(tickets)
                  /\ tickets[id].status \in {TicketStatusReady, TicketStatusDelivered}
       ]_vars

\* The same for the tracking page alone: the submissions of the public
\* endpoint leave at most one survey per ticket
C27_PublicOnly ==
    [][ last'.step = "PublicSubmitSurvey_create" /\ surveys' # surveys
        => Cardinality(SurveysOf(surveys', last'.ticket.ID)) <= 1 ]_vars

----------------------------------------------------------------------------
(* Properties of the lookups by id *)

TicketLookups == {"handleTicketLabel", "handleTicketQuote", "handleUpdateTicketStatus",
                  "handleAddTicketNotes"}
BookingLookups == {"handleCreateBicycleFromBooking", "handleCreateTicket"}

\* The request e arrived at its handler and asks for a row that is not there
LookupMissed(e) ==
    /\ e.step \in TicketLookups \cup BookingLookups
    /\ e.step = e.req.handler
    /\ ServeHTTP(e.req.handler, e.cred, e.at).handler
    /\ e.step \in TicketLookups => e.req.id \notin 1..Len(tickets)
    /\ e.step \in BookingLookups => e.req.id \notin 1..Len(bookings)

\* C28: a handler that looks a ticket or a booking up by id and finds no
\* row answers not found and goes no further; so do the label, the quote
\* and the bicycle of a booking.
C28_MissIsNotFound ==
    [][ LookupMissed(last')
        => /\ last'.resp.code = 404
           /\ inflight'[last'.slot] = Idle
           /\ UNCHANGED <<tickets, bookings, history>> ]_vars

\* The handlers that compare the row with nil do answer not found: the
\* status update, the notes and the ticket of a booking
C28_CheckedLookups ==
    [][ LookupMissed(last')
        /\ last'.step \in {"handleUpdateTicketStatus", "handleAddTicketNotes",
                           "handleCreateTicket"}
        => /\ last'.resp.code = 404
           /\ inflight'[last'.slot] = Idle
           /\ UNCHANGED <<tickets, bookings, history>> ]_vars

----------------------------------------------------------------------------
(* Properties of the tickets of a booking *)

TicketsOfBooking(b) == {t \in 1..Len(tickets) : tickets[t].booking_id = b}

\* C29: whatever the interleaving of the requests that create a ticket
\* from a booking, no booking is referenced by two tickets, a ticket is
\* created only from a booking that is not cancelled, and a cancelled
\* booking never becomes confirmed again.
C29_OneTicketPerBooking ==
    /\ [](\A b \in 1..Len(bookings) : Cardinality(TicketsOfBooking(b)) <= 1)
    /\ [][ last'.step = "Create_exec" /\ Len(tickets') > Len(tickets)
           => bookings[tickets'[Len(tickets')].booking_id].status
                  # BookingStatusCancelled ]_vars
    /\ [][ \A b \in 1..Len(bookings) :
             bookings[b].status = BookingStatusCancelled
                 => bookings'[b].status # BookingStatusConfirmed ]_vars

\* Each part of it alone
C29_AtMostOneTicket ==
    \A b \in 1..Len(bookings) : Cardinality(TicketsOfBooking(b)) <= 1

C29_NotFromCancelled ==
    [][ last'.step = "Create_exec" /\ Len(tickets') > Len(tickets)
        => bookings[tickets'[Len(tickets')].booking_id].status
               # BookingStatusCancelled ]_vars

C29_CancelledStays ==
    [][ \A b \in 1..Len(bookings) :
          bookings[b].status = BookingStatusCancelled
              => bookings'[b].status # BookingStatusConfirmed ]_vars

----------------------------------------------------------------------------
(* Properties of the technician's way to delivered *)

\* The statuses a technician can bring a ticket to from the statuses S, in
\* at most n moves of the handler's switch
RECURSIVE TechnicianReach(_, _)
TechnicianReach(S, n) ==
    IF n = 0 THEN S
    ELSE TechnicianReach(S \cup {t \in TicketStatuses :
                                    \E s \in S : TechnicianMayMove(s, t)}, n - 1)

\* The technician asks for a move of an existing ticket that the switch
\* allows
PermittedMove(e) ==
    /\ e.step = "handleUpdateTicketStatus"
    /\ e.claims.Role = RoleTechnician
    /\ e.req.id \in 1..Len(tickets)
    /\ TechnicianMayMove(tickets[e.req.id].status, e.req.status)

\* C30: the technician who created a ticket, from a booking or at the
\* counter, moves it on by the transitions a technician is allowed, with
\* no admin: no permitted move of a ticket the technician created is
\* refused, and from every status but delivered the switch leads to
\* delivered.  (In SpecAdvance technician A created every ticket.)
C30_CreatorAdvances ==
    /\ [](\A s \in TicketStatuses :
            TicketStatusDelivered
                \in TechnicianReach({s}, Cardinality(TicketStatuses)))
    /\ [][ PermittedMove(last')
           => /\ last'.resp = NoResp
              /\ inflight'[last'.slot].pc = "UpdateStatus" ]_vars

\* The switch alone
C30_DeliveredReachable ==
    \A s \in TicketStatuses :
        TicketStatusDelivered \in TechnicianReach({s}, Cardinality(TicketStatuses))

\* The tickets assigned to the technician, among them those created from a
\* booking
C30_AssignedAdvances ==
    [][ PermittedMove(last')
        /\ tickets[last'.req.id].technician_id = last'.claims.UserID
        => /\ last'.resp = NoResp
           /\ inflight'[last'.slot].pc = "UpdateStatus" ]_vars

====
